---- MODULE Spec2Model ----
(***************************************************************************)
(* SafetyMapper (src/safetymapper.py): the content moderator               *)
(* (VertexAISafetyModerator), the chat handler POST /api/ai-chat, the      *)
(* route segment risk classifier (analyze_route_segments), the route       *)
(* safety score (calculate_safety_score_by_mode), the incident store      *)
(* with its HTTP handlers (FirestoreIncidentManager, /api/incidents), the  *)
(* start-up seeding (initialize_sample_data) and create_safety_context.    *)
(*                                                                         *)
(* Strings are TLA+ strings; a character is a string of length one.        *)
(* Confidence scores are kept in tenths (9 stands for 0.9), distances in   *)
(* ten-thousandths of a mile and coordinates in thousandths of a degree,   *)
(* so that every comparison of the source is exact integer arithmetic.     *)
(***************************************************************************)
EXTENDS Integers, Sequences, FiniteSets, TLC

VARIABLES
    enabled,            \* content_moderator.enabled
    keyConfigured,      \* GEMINI_API_KEY != "YOUR_GEMINI_API_KEY_HERE"
    genaiAvailable,     \* genai is not None
    pc,                 \* position of the ai_chat handler
    user_message,       \* data.get('message', '').strip()
    ext,                \* outcome of the content-safety layer's model call
    moderation_result,  \* verdict of check_content
    trace,              \* calls of the current request, in order
    model_idx,          \* next entry of model_names to try
    response,           \* body returned by the handler
    context,            \* context of ai_chat, the result of create_safety_context
    incidents,          \* incident list read by plan_route or ai_chat
    route_steps,        \* route['legs'][0]['steps']
    route_segments,     \* result of analyze_route_segments
    travel_mode,        \* argument of calculate_safety_score_by_mode
    police_stations,    \* len(police_stations)
    hospitals,          \* len(hospitals)
    gas_stations,       \* len(gas_stations)
    distance,           \* leg['distance']['text']
    safety_score,       \* value returned by calculate_safety_score_by_mode
    db,                 \* incident_manager.db is not None
    gmaps,              \* gmaps is not None
    store,              \* documents of the 'incidents' collection, in stream order
    request,            \* the HTTP request being answered
    api_response,       \* status and body returned by the handler
    api_trace           \* external calls made by the handler, in order

vars == <<enabled, keyConfigured, genaiAvailable, pc, user_message, ext,
          moderation_result, trace, model_idx, response, context,
          incidents, route_steps, route_segments,
          travel_mode, police_stations, hospitals, gas_stations, distance,
          safety_score, db, gmaps, store, request, api_response, api_trace>>

chatVars == <<enabled, keyConfigured, genaiAvailable, pc, user_message, ext,
              moderation_result, trace, model_idx, response, context>>

routeVars == <<incidents, route_steps, route_segments>>

scoreVars == <<travel_mode, police_stations, hospitals, gas_stations, distance,
               safety_score>>

storeVars == <<db, gmaps, store, request, api_response, api_trace>>

-----------------------------------------------------------------------------
(* Bounds *)

\* a chat message is at most this many vocabulary fragments joined by spaces
MaxWords == 2

\* incidents handed to the route analysis
MaxIncidents == 3

\* steps of a route
MaxSteps == 1

-----------------------------------------------------------------------------
(* Strings *)

CharAt(s, i) == SubSeq(s, i, i)

UpperChars == "ABCDEFGHIJKLMNOPQRSTUVWXYZ"

LowerChars == "abcdefghijklmnopqrstuvwxyz"

DigitChars == "0123456789"

CharsOf(chars) == {CharAt(chars, i) : i \in 1..Len(chars)}

UpperSet == CharsOf(UpperChars)

LowerSet == CharsOf(LowerChars)

DigitSet == CharsOf(DigitChars)

\* the lower-case letter of each upper-case letter
ToLower == [c \in UpperSet |-> CharAt(LowerChars, CHOOSE i \in 1..26 : CharAt(UpperChars, i) = c)]

\* the upper-case letter of each lower-case letter
ToUpper == [c \in LowerSet |-> CharAt(UpperChars, CHOOSE i \in 1..26 : CharAt(LowerChars, i) = c)]

LowerChar(c) == IF c \in UpperSet THEN ToLower[c] ELSE c

UpperChar(c) == IF c \in LowerSet THEN ToUpper[c] ELSE c

RECURSIVE Lower(_)
\* str.lower()
Lower(s) ==
    IF Len(s) = 0 THEN ""
    ELSE LowerChar(CharAt(s, 1)) \o Lower(SubSeq(s, 2, Len(s)))

RECURSIVE Upper(_)
\* str.upper()
Upper(s) ==
    IF Len(s) = 0 THEN ""
    ELSE UpperChar(CharAt(s, 1)) \o Upper(SubSeq(s, 2, Len(s)))

\* Python's `k in s` for strings
Contains(s, k) ==
    \E i \in 1..(Len(s) - Len(k) + 1) : SubSeq(s, i, i + Len(k) - 1) = k

\* any(keyword in s for keyword in keywords)
AnyIn(keywords, s) == \E i \in 1..Len(keywords) : Contains(s, keywords[i])

\* s[:n]
Prefix(s, n) == SubSeq(s, 1, IF Len(s) < n THEN Len(s) ELSE n)

RECURSIVE Join(_, _)
\* sep.join(parts)
Join(parts, sep) ==
    IF Len(parts) = 0 THEN ""
    ELSE IF Len(parts) = 1 THEN parts[1]
    ELSE parts[1] \o sep \o Join(Tail(parts), sep)

RECURSIVE MaxOf(_)
\* running max(max_confidence, ...) starting from 0
MaxOf(xs) ==
    IF Len(xs) = 0 THEN 0
    ELSE LET m == MaxOf(Tail(xs)) IN IF xs[1] > m THEN xs[1] ELSE m

-----------------------------------------------------------------------------
(* Regular expressions of _check_security_privacy *)

IsDigit(s, i) == i \in 1..Len(s) /\ CharAt(s, i) \in DigitSet

IsLetter(s, i) ==
    i \in 1..Len(s) /\ CharAt(s, i) \in (UpperSet \cup LowerSet)

\* \w
IsWord(s, i) == IsDigit(s, i) \/ IsLetter(s, i) \/ (i \in 1..Len(s) /\ CharAt(s, i) = "_")

\* \b before the character at position i (i = Len(s) + 1: at the end)
Boundary(s, i) == IsWord(s, i - 1) # IsWord(s, i)

\* \d{n} at position i
DigitsAt(s, i, n) == \A k \in 0..(n - 1) : IsDigit(s, i + k)

\* \s
Whitespace == {" ", "\t", "\n", "\r", "\f"}

\* an optional separator [...]? of width g (0 or 1) at position i
OptSep(s, i, g, seps) == g = 0 \/ (i \in 1..Len(s) /\ CharAt(s, i) \in seps)

\* \b\d{4}[-\s]?\d{4}[-\s]?\d{4}[-\s]?\d{4}\b
CardPattern(s) ==
    \E i \in 1..Len(s) :
        LET seps == {"-"} \cup Whitespace
        IN  /\ DigitsAt(s, i, 4)
            /\ Boundary(s, i)
            /\ \E g1 \in {0, 1} :
                LET p2 == i + 4 + g1
                IN  /\ OptSep(s, i + 4, g1, seps)
                    /\ DigitsAt(s, p2, 4)
                    /\ \E g2 \in {0, 1} :
                        LET p3 == p2 + 4 + g2
                        IN  /\ OptSep(s, p2 + 4, g2, seps)
                            /\ DigitsAt(s, p3, 4)
                            /\ \E g3 \in {0, 1} :
                                LET p4 == p3 + 4 + g3
                                IN  /\ OptSep(s, p3 + 4, g3, seps)
                                    /\ DigitsAt(s, p4, 4)
                                    /\ Boundary(s, p4 + 4)

\* \b\d{3}[-.]?\d{3}[-.]?\d{4}\b
PhonePattern(s) ==
    \E i \in 1..Len(s) :
        LET seps == {"-", "."}
        IN  /\ DigitsAt(s, i, 3)
            /\ Boundary(s, i)
            /\ \E g1 \in {0, 1} :
                LET p2 == i + 3 + g1
                IN  /\ OptSep(s, i + 3, g1, seps)
                    /\ DigitsAt(s, p2, 3)
                    /\ \E g2 \in {0, 1} :
                        LET p3 == p2 + 3 + g2
                        IN  /\ OptSep(s, p2 + 3, g2, seps)
                            /\ DigitsAt(s, p3, 4)
                            /\ Boundary(s, p3 + 4)

\* \b\d{3}-\d{2}-\d{4}\b
SSNPattern(s) ==
    \E i \in 1..Len(s) :
        /\ DigitsAt(s, i, 3) /\ OptSep(s, i + 3, 1, {"-"})
        /\ Boundary(s, i)
        /\ DigitsAt(s, i + 4, 2) /\ OptSep(s, i + 6, 1, {"-"})
        /\ DigitsAt(s, i + 7, 4)
        /\ Boundary(s, i + 11)

\* [A-Za-z0-9._%+-]
IsLocalChar(s, i) ==
    IsDigit(s, i) \/ IsLetter(s, i) \/ (i \in 1..Len(s) /\ CharAt(s, i) \in {".", "_", "%", "+", "-"})

\* [A-Za-z0-9.-]
IsDomainChar(s, i) ==
    IsDigit(s, i) \/ IsLetter(s, i) \/ (i \in 1..Len(s) /\ CharAt(s, i) \in {".", "-"})

\* [A-Z|a-z]
IsTldChar(s, i) == IsLetter(s, i) \/ (i \in 1..Len(s) /\ CharAt(s, i) = "|")

\* \b[A-Za-z0-9._%+-]+@[A-Za-z0-9.-]+\.[A-Z|a-z]{2,}\b
\* a: start of the local part, at: the "@", d: the last ".", e: the last character
EmailPattern(s) ==
    \E at \in 1..Len(s) :
        /\ CharAt(s, at) = "@"
        /\ \E a \in 1..(at - 1) :
            /\ Boundary(s, a)
            /\ \A k \in a..(at - 1) : IsLocalChar(s, k)
        /\ \E d \in (at + 2)..Len(s) :
            /\ CharAt(s, d) = "."
            /\ \A k \in (at + 1)..(d - 1) : IsDomainChar(s, k)
            /\ \E e \in (d + 2)..Len(s) :
                /\ \A k \in (d + 1)..e : IsTldChar(s, k)
                /\ Boundary(s, e + 1)

-----------------------------------------------------------------------------
(* VertexAISafetyModerator: the four layers *)

dangerous_keywords ==
    <<"bomb", "explosive", "weapon", "gun", "shoot", "kill", "murder", "suicide",
      "terrorist", "attack", "hack", "steal", "rob", "drug", "illegal">>

brand_safety_keywords ==
    <<"safe", "safety", "crime", "incident", "security", "danger", "risk",
      "police", "emergency", "help">>

\* a profanity list of the brand layer without "damn"
inappropriate_words_without_damn == <<"fuck", "shit", "bitch", "asshole", "hell">>

inappropriate_words == <<"fuck", "shit", "bitch", "asshole", "damn", "hell">>

alignment_safety_keywords ==
    <<"safe", "safety", "crime", "incident", "security", "danger", "risk",
      "police", "emergency", "help", "theft", "assault", "harassment",
      "vandalism", "suspicious", "neighborhood", "area", "location",
      "walk", "night", "day", "shopping", "downtown", "street",
      "rate", "statistics", "recent", "happened", "occurred">>

off_topic_keywords ==
    <<"weather", "sports", "politics", "cooking", "recipe", "movie", "music">>

injection_patterns ==
    <<"ignore previous instructions", "system prompt", "you are now",
      "pretend to be", "act as if", "roleplay as">>

error_safety_words == <<"safety", "blocked", "harmful", "inappropriate">>

\* outcomes of model.generate_content in the content-safety layer:
\* a response text, or an exception with its text
ExtOutcomes ==
    { [kind |-> "text",  text |-> "SAFE"],
      [kind |-> "text",  text |-> "Unsafe"],
      [kind |-> "text",  text |-> ""],
      [kind |-> "raise", text |-> "Blocked by Safety filters"],
      [kind |-> "raise", text |-> "deadline exceeded"] }

\* no call was made
NoCall == [kind |-> "none", text |-> ""]

LayerResult(b, cat, reason, conf) ==
    [blocked |-> b, category |-> cat, reason |-> reason, confidence |-> conf]

\* the keyword scan of _check_content_safety decides alone
DangerousKeyword(message) == AnyIn(dangerous_keywords, Lower(message))

\* _check_content_safety treating every exception as a block
_check_content_safety_fail_closed(message, o) ==
    IF DangerousKeyword(message)
    THEN LayerResult(TRUE, "CONTENT_SAFETY", "Dangerous content detected", 9)
    ELSE IF o.kind = "raise"
    THEN LayerResult(TRUE, "CONTENT_SAFETY",
                     "Blocked by Vertex AI safety filters: " \o Prefix(o.text, 100), 9)
    ELSE IF Len(o.text) > 0 /\ Contains(Upper(o.text), "UNSAFE")
    THEN LayerResult(TRUE, "CONTENT_SAFETY", "Content deemed unsafe by Gemini", 8)
    ELSE LayerResult(FALSE, "CONTENT_SAFETY", "Content passed safety filters", 9)

\* o is the outcome of the layer's model call; it is read only when no
\* dangerous keyword matched
_check_content_safety(message, o) ==
    IF DangerousKeyword(message)
    THEN LayerResult(TRUE, "CONTENT_SAFETY", "Dangerous content detected", 9)
    ELSE IF o.kind = "raise"
    THEN IF AnyIn(error_safety_words, Lower(o.text))
         THEN LayerResult(TRUE, "CONTENT_SAFETY",
                          "Blocked by Vertex AI safety filters: " \o Prefix(o.text, 100), 9)
         ELSE LayerResult(FALSE, "CONTENT_SAFETY", "Safety check inconclusive", 1)
    ELSE IF Len(o.text) > 0 /\ Contains(Upper(o.text), "UNSAFE")
    THEN LayerResult(TRUE, "CONTENT_SAFETY", "Content deemed unsafe by Gemini", 8)
    ELSE LayerResult(FALSE, "CONTENT_SAFETY", "Content passed safety filters", 9)

_check_brand_safety(message) ==
    IF AnyIn(brand_safety_keywords, Lower(message))
    THEN LayerResult(FALSE, "BRAND_SAFETY", "Safety-related content aligns with brand values", 9)
    ELSE IF AnyIn(inappropriate_words, Lower(message))
    THEN LayerResult(TRUE, "BRAND_SAFETY", "Inappropriate language detected", 8)
    ELSE LayerResult(FALSE, "BRAND_SAFETY", "Content aligns with brand values", 8)

_check_alignment(message) ==
    IF AnyIn(alignment_safety_keywords, Lower(message))
    THEN LayerResult(FALSE, "ALIGNMENT", "Content relevant to safety context", 9)
    ELSE IF AnyIn(off_topic_keywords, Lower(message))
    THEN LayerResult(TRUE, "ALIGNMENT", "Content not relevant to safety context", 6)
    ELSE LayerResult(FALSE, "ALIGNMENT", "Content relevant to safety context", 8)

\* the violations list of _check_security_privacy, in the order of the appends
SecurityViolations(message) ==
    (IF EmailPattern(message) THEN <<"Contains email address">> ELSE <<>>)
    \o (IF PhonePattern(message) THEN <<"Contains phone number">> ELSE <<>>)
    \o (IF SSNPattern(message) THEN <<"Contains SSN pattern">> ELSE <<>>)
    \o (IF CardPattern(message) THEN <<"Contains credit card pattern">> ELSE <<>>)
    \o [i \in 1..Len(SelectSeq(injection_patterns, LAMBDA p : Contains(Lower(message), p))) |->
          "Potential prompt injection: "
          \o SelectSeq(injection_patterns, LAMBDA p : Contains(Lower(message), p))[i]]

_check_security_privacy(message) ==
    LET violations == SecurityViolations(message)
    IN  IF Len(violations) > 0
        THEN LayerResult(TRUE, "SECURITY_PRIVACY",
                         "Security/privacy violations: " \o Join(violations, ", "), 9)
        ELSE LayerResult(FALSE, "SECURITY_PRIVACY", "No security or privacy concerns detected", 9)

-----------------------------------------------------------------------------
(* VertexAISafetyModerator: combination *)

\* the keys of safety_results, in insertion order
LayerKeys == <<"content_safety", "brand_safety", "alignment_check", "security_privacy">>

\* x in list
InList(x, list) == \E i \in 1..Len(list) : list[i] = x

\* the dict built in check_content
SafetyResults(message, o) ==
    [k \in {LayerKeys[i] : i \in 1..Len(LayerKeys)} |->
        CASE k = "content_safety"   -> _check_content_safety(message, o)
          [] k = "brand_safety"     -> _check_brand_safety(message)
          [] k = "alignment_check"  -> _check_alignment(message)
          [] k = "security_privacy" -> _check_security_privacy(message)]

\* [cat for cat, result in safety_results.items() if result['blocked']]
BlockedKeys(safety_results) == SelectSeq(LayerKeys, LAMBDA k : safety_results[k].blocked)

_assess_risk_level(safety_results) ==
    LET high_risk_categories == <<"CONTENT_SAFETY", "SECURITY_PRIVACY">>
        medium_risk_categories == <<"BRAND_SAFETY">>
        low_risk_categories == <<"ALIGNMENT">>
        blocked_categories == BlockedKeys(safety_results)
        AnyBlocked(cats) == \E i \in 1..Len(cats) : InList(cats[i], blocked_categories)
    IN  IF AnyBlocked(high_risk_categories) THEN "HIGH_RISK"
        ELSE IF AnyBlocked(medium_risk_categories) THEN "MEDIUM_RISK"
        ELSE IF AnyBlocked(low_risk_categories) THEN "LOW_RISK"
        ELSE "SAFE"

\* {v['type']: v['score'] for v in violations}
ScoresOf(violations) ==
    [t \in {violations[i].type : i \in 1..Len(violations)} |->
        violations[CHOOSE i \in 1..Len(violations) :
                      /\ violations[i].type = t
                      /\ \A j \in 1..Len(violations) : violations[j].type = t => j <= i].score]

\* _evaluate_combined_results leaving the loop at the first blocking layer
_evaluate_combined_results_first_only(message, safety_results) ==
    LET blocked_categories == IF Len(BlockedKeys(safety_results)) > 0
                              THEN <<BlockedKeys(safety_results)[1]>> ELSE <<>>
        violations == [i \in 1..Len(blocked_categories) |->
                          [type      |-> safety_results[blocked_categories[i]].category,
                           score     |-> safety_results[blocked_categories[i]].confidence,
                           threshold |-> 5,
                           reason    |-> safety_results[blocked_categories[i]].reason]]
    IN  [blocked               |-> Len(violations) > 0,
         max_score             |-> MaxOf([i \in 1..Len(violations) |-> violations[i].score]),
         violations            |-> violations,
         scores                |-> ScoresOf(violations),
         message_length        |-> Len(message),
         method                |-> "vertex_ai_safety",
         blocked_categories    |-> blocked_categories,
         risk_assessment       |-> _assess_risk_level(safety_results),
         safety_layers_checked |-> LayerKeys]

_evaluate_combined_results(message, safety_results) ==
    LET blocked_categories == BlockedKeys(safety_results)
        violations == [i \in 1..Len(blocked_categories) |->
                          [type      |-> safety_results[blocked_categories[i]].category,
                           score     |-> safety_results[blocked_categories[i]].confidence,
                           threshold |-> 5,
                           reason    |-> safety_results[blocked_categories[i]].reason]]
    IN  [blocked               |-> Len(violations) > 0,
         max_score             |-> MaxOf([i \in 1..Len(violations) |-> violations[i].score]),
         violations            |-> violations,
         scores                |-> ScoresOf(violations),
         message_length        |-> Len(message),
         method                |-> "vertex_ai_safety",
         blocked_categories    |-> blocked_categories,
         risk_assessment       |-> _assess_risk_level(safety_results),
         safety_layers_checked |-> LayerKeys]

\* critical_patterns, in insertion order
critical_patterns ==
    << [category |-> "VIOLENCE",
        patterns |-> <<"kill", "murder", "bomb", "terrorist", "weapon", "gun", "knife">>],
       [category |-> "HARASSMENT",
        patterns |-> <<"hate", "racist", "nazi", "supremacist">>],
       [category |-> "PROFANITY",
        patterns |-> <<"fuck", "shit", "bitch", "asshole", "damn">>],
       [category |-> "INAPPROPRIATE",
        patterns |-> <<"hack", "illegal", "drugs", "steal">>] >>

\* the first pattern of the list found in s (the inner loop breaks there)
FirstPattern(patterns, s) ==
    patterns[CHOOSE i \in 1..Len(patterns) :
                /\ Contains(s, patterns[i])
                /\ \A j \in 1..(i - 1) : ~Contains(s, patterns[j])]

basic_content_check(message) ==
    LET message_lower == Lower(message)
        hit == SelectSeq(critical_patterns, LAMBDA c : AnyIn(c.patterns, message_lower))
        violations == [i \in 1..Len(hit) |->
                          [type      |-> hit[i].category,
                           score     |-> 8,
                           threshold |-> 5,
                           reason    |-> "Contains inappropriate word: "
                                         \o FirstPattern(hit[i].patterns, message_lower)]]
    IN  [blocked         |-> Len(violations) > 0,
         max_score       |-> IF Len(violations) > 0 THEN 8 ELSE 0,
         violations      |-> violations,
         scores          |-> ScoresOf(violations),
         message_length  |-> Len(message),
         method          |-> "basic_fallback",
         risk_assessment |-> IF Len(violations) > 0 THEN "HIGH_RISK" ELSE "SAFE"]

\* check_content with an error of the model call leaving the content-safety
\* layer: the handler of lines 145-147 answers with the basic check
check_content_layer_error_escapes(on, message, o) ==
    IF ~on THEN basic_content_check(message)
    ELSE IF o.kind = "raise" THEN basic_content_check(message)
    ELSE _evaluate_combined_results(message, SafetyResults(message, o))

\* check_content; on is self.enabled, o the outcome of the model call
check_content(on, message, o) ==
    IF ~on THEN basic_content_check(message)
    ELSE _evaluate_combined_results(message, SafetyResults(message, o))

-----------------------------------------------------------------------------
(* get_vertex_ai_filtered_response: the template chosen for a blocked verdict *)

\* moderation_result.get('blocked_categories', [])
GetBlockedCategories(result) ==
    IF "blocked_categories" \in DOMAIN result THEN result.blocked_categories ELSE <<>>

get_vertex_ai_filtered_response(result) ==
    LET blocked_categories == GetBlockedCategories(result)
    IN  IF InList("content_safety", blocked_categories) THEN "Content Safety Alert"
        ELSE IF InList("brand_safety", blocked_categories) THEN "Professional Communication"
        ELSE IF InList("security_privacy", blocked_categories) THEN "Privacy Protection"
        ELSE IF InList("alignment", blocked_categories) THEN "Stay On Topic"
        ELSE "SafetyMapper Assistant"

-----------------------------------------------------------------------------
(* POST /api/ai-chat *)

\* fragments of chat messages
Vocabulary ==
    { "bomb", "a BoMb", "explosive", "knife", "damn", "hell", "weather",
      "safe", "night walk", "route", "pretend to be", "me@home.org",
      "4532 1234 5678 9012", "4532-1234-5678-9012" }

RECURSIVE MessagesOf(_)
\* the messages of exactly n fragments
MessagesOf(n) ==
    IF n = 1 THEN Vocabulary
    ELSE {m \o " " \o w : m \in MessagesOf(n - 1), w \in Vocabulary}

Messages == UNION {MessagesOf(n) : n \in 1..MaxWords}

model_names == <<"gemini-1.5-flash-002", "gemini-1.5-flash", "gemini-1.5-pro">>

NoVerdict == [method |-> "none"]

NoResponse == [status |-> 0, kind |-> "none", body |-> ""]

\* no context has been built
NoContext == [none |-> TRUE]

\* no score has been computed
NoScore == [none |-> TRUE]

\* the score calculator has not been called
ScoreIdle ==
    /\ travel_mode = "DRIVING"
    /\ police_stations = 0
    /\ hospitals = 0
    /\ gas_stations = 0
    /\ distance = ""
    /\ safety_score = NoScore

\* no request to the incident endpoints is being answered
NoRequest == [op |-> "none"]

NoApiResponse == [status |-> 0]

\* the incident endpoints have not been called
StoreIdle ==
    /\ db = FALSE
    /\ gmaps = FALSE
    /\ store = <<>>
    /\ request = NoRequest
    /\ api_response = NoApiResponse
    /\ api_trace = <<>>


-----------------------------------------------------------------------------
(* Route segment risk classifier *)

\* calculate_distance, squared: sqrt((dlat * 69)^2 + (dlng * 54.6)^2) miles with
\* coordinates in thousandths of a degree is sqrt of this, in 1/10000 mile
calculate_distance_sq(lat1, lng1, lat2, lng2) ==
    LET lat_diff == IF lat1 >= lat2 THEN lat1 - lat2 ELSE lat2 - lat1
        lng_diff == IF lng1 >= lng2 THEN lng1 - lng2 ELSE lng2 - lng1
    IN  (lat_diff * 690) * (lat_diff * 690) + (lng_diff * 546) * (lng_diff * 546)

\* distance <= radius_miles, the radius in 1/10000 mile
WithinRadius(lat1, lng1, lat2, lng2, radius) ==
    calculate_distance_sq(lat1, lng1, lat2, lng2) <= radius * radius

\* radius_miles=0.5
NearRadius == 5000

\* radius_miles=0.3
SevereRadius == 3000

\* `if incident_lat and incident_lng`: a float is true unless it is zero
Truthy(x) == x # 0

count_incidents_near_route_segment(start_lat, start_lng, end_lat, end_lng, incs, radius) ==
    Len(SelectSeq(incs, LAMBDA incident :
        /\ Truthy(incident.lat) /\ Truthy(incident.lng)
        /\ \/ WithinRadius(start_lat, start_lng, incident.lat, incident.lng, radius)
           \/ WithinRadius(end_lat, end_lng, incident.lat, incident.lng, radius)))

\* a severe counter that counts an incident once for each endpoint it is near
count_severe_incidents_near_segment_per_endpoint(start_lat, start_lng, end_lat, end_lng, incs, radius) ==
    Len(SelectSeq(incs, LAMBDA incident :
        /\ incident.severity = "high"
        /\ Truthy(incident.lat) /\ Truthy(incident.lng)
        /\ WithinRadius(start_lat, start_lng, incident.lat, incident.lng, radius)))
    + Len(SelectSeq(incs, LAMBDA incident :
        /\ incident.severity = "high"
        /\ Truthy(incident.lat) /\ Truthy(incident.lng)
        /\ WithinRadius(end_lat, end_lng, incident.lat, incident.lng, radius)))

count_severe_incidents_near_segment(start_lat, start_lng, end_lat, end_lng, incs, radius) ==
    Len(SelectSeq(incs, LAMBDA incident :
        /\ incident.severity = "high"
        /\ Truthy(incident.lat) /\ Truthy(incident.lng)
        /\ \/ WithinRadius(start_lat, start_lng, incident.lat, incident.lng, radius)
           \/ WithinRadius(end_lat, end_lng, incident.lat, incident.lng, radius)))

\* the if/elif/else of lines 3626-3631
SafetyLevel(severe_incidents, incidents_near_segment) ==
    IF severe_incidents > 0 \/ incidents_near_segment >= 3 THEN "high_risk"
    ELSE IF incidents_near_segment >= 1 THEN "medium_risk"
    ELSE "safe"

analyze_route_segments(steps, incs) ==
    [i \in 1..Len(steps) |->
        LET step == steps[i]
            incidents_near_segment ==
                count_incidents_near_route_segment(
                    step.start_location.lat, step.start_location.lng,
                    step.end_location.lat, step.end_location.lng, incs, NearRadius)
            severe_incidents ==
                count_severe_incidents_near_segment(
                    step.start_location.lat, step.start_location.lng,
                    step.end_location.lat, step.end_location.lng, incs, SevereRadius)
        IN  [segment_id       |-> i - 1,
             incident_count   |-> incidents_near_segment,
             severe_incidents |-> severe_incidents,
             safety_level     |-> SafetyLevel(severe_incidents, incidents_near_segment)]]

Severities == {"low", "medium", "high"}

\* where incidents lie, in thousandths of a degree
IncidentPoints == { [lat |-> 0, lng |-> 0], [lat |-> 0, lng |-> 7], [lat |-> 4, lng |-> 7] }

\* where route steps start and end
RoutePoints == { [lat |-> 0, lng |-> 0], [lat |-> 4, lng |-> 10], [lat |-> 12, lng |-> 7] }

IncidentKinds == {[severity |-> sv, lat |-> p.lat, lng |-> p.lng] : sv \in Severities, p \in IncidentPoints}

StepKinds == {[start_location |-> a, end_location |-> b] : a \in RoutePoints, b \in RoutePoints}

\* the lists over S of length lo..hi
ListsOf(S, lo, hi) == UNION {[1..k -> S] : k \in lo..hi}

\* plan_route, lines 3530-3534: the incidents are read and the route analysed
AnalyzeRoute ==
    /\ pc = "route"
    /\ route_segments' = analyze_route_segments(route_steps, incidents)
    /\ pc' = "routed"
    /\ UNCHANGED <<enabled, keyConfigured, genaiAvailable, user_message, ext,
                   moderation_result, trace, model_idx, response, context>>
    /\ UNCHANGED <<incidents, route_steps>>
    /\ UNCHANGED <<scoreVars, storeVars>>

\* a route request: the steps come from the directions service, the incidents
\* from get_all_incidents
InitRoute ==
    /\ keyConfigured = FALSE
    /\ genaiAvailable = FALSE
    /\ enabled = FALSE
    /\ pc = "route"
    /\ user_message = ""
    /\ ext = NoCall
    /\ moderation_result = NoVerdict
    /\ trace = <<>>
    /\ model_idx = 1
    /\ response = NoResponse
    /\ context = NoContext
    /\ incidents \in ListsOf(IncidentKinds, 0, MaxIncidents)
    /\ route_steps \in ListsOf(StepKinds, 1, MaxSteps)
    /\ route_segments = <<>>
    /\ ScoreIdle
    /\ StoreIdle

NextRoute == AnalyzeRoute

SpecRoute == InitRoute /\ [][NextRoute]_vars

-----------------------------------------------------------------------------
(* The route safety score, calculate_safety_score_by_mode *)

\* Python floats: a finite value, an infinity with its sign, or not-a-number
Fin(n) == [fin |-> n]

NaN == [nan |-> TRUE]

Inf(sign) == [inf |-> sign]

IsFin(x) == "fin" \in DOMAIN x

IsNaN(x) == "nan" \in DOMAIN x

IsInf(x) == "inf" \in DOMAIN x

\* a < b on floats: every comparison with nan is false
FLess(a, b) ==
    IF IsNaN(a) \/ IsNaN(b) THEN FALSE
    ELSE IF IsInf(a) THEN a.inf < 0 /\ ~(IsInf(b) /\ b.inf < 0)
    ELSE IF IsInf(b) THEN b.inf > 0
    ELSE a.fin < b.fin

\* the builtin min(a, b): b only if b < a
FMin(a, b) == IF FLess(b, a) THEN b ELSE a

\* the builtin max(a, b): b only if b > a
FMax(a, b) == IF FLess(a, b) THEN b ELSE a

\* a - b for a finite a
FSub(a, b) ==
    IF IsNaN(b) THEN NaN
    ELSE IF IsInf(b) THEN Inf(0 - b.inf)
    ELSE Fin(a.fin - b.fin)

\* x * k for a finite k > 0
FScale(x, k) == IF IsFin(x) THEN Fin(x.fin * k) ELSE x

\* one score point; a distance of a tenth of a kilometre over the divisor 20
\* is then the whole number 621371 * 1
ScoreUnit == 200000000

\* one mile, in the unit of distance_miles (1e-7 mile)
MileUnit == 10000000

\* 0.621371, in millionths
KmToMiles == 621371

\* index of the first blank of s, Len(s) + 1 if there is none
FirstBlank(s) ==
    IF \E i \in 1..Len(s) : CharAt(s, i) = " "
    THEN CHOOSE i \in 1..Len(s) :
            /\ CharAt(s, i) = " "
            /\ \A j \in 1..(i - 1) : CharAt(s, j) # " "
    ELSE Len(s) + 1

RECURSIVE Split(_)
\* str.split()
Split(s) ==
    IF Len(s) = 0 THEN <<>>
    ELSE IF CharAt(s, 1) = " " THEN Split(SubSeq(s, 2, Len(s)))
    ELSE <<SubSeq(s, 1, FirstBlank(s) - 1)>> \o Split(SubSeq(s, FirstBlank(s), Len(s)))

\* str.startswith
StartsWith(s, p) == Len(s) >= Len(p) /\ SubSeq(s, 1, Len(p)) = p

DigitVal == [c \in DigitSet |-> CHOOSE v \in 0..9 : CharAt(DigitChars, v + 1) = c]

AllDigits(s) == Len(s) > 0 /\ \A i \in 1..Len(s) : CharAt(s, i) \in DigitSet

RECURSIVE DigitsValue(_)
DigitsValue(s) ==
    IF Len(s) = 0 THEN 0
    ELSE DigitsValue(SubSeq(s, 1, Len(s) - 1)) * 10 + DigitVal[CharAt(s, Len(s))]

\* the exception raised by float() on a non-number
ValueError == [error |-> "ValueError"]

\* the exception raised by [0] on an empty list
IndexError == [error |-> "IndexError"]

Raised(x) == "error" \in DOMAIN x

\* float(token), the value in tenths: an optional sign, then nan, inf,
\* infinity (in any case), digits, or digits with one fractional digit;
\* longer fractions and exponents are outside the modelled inputs
float(token) ==
    LET signed == Len(token) > 0 /\ CharAt(token, 1) \in {"+", "-"}
        sign == IF signed /\ CharAt(token, 1) = "-" THEN 0 - 1 ELSE 1
        body == Lower(IF signed THEN SubSeq(token, 2, Len(token)) ELSE token)
        n == Len(body)
    IN IF body = "nan" THEN NaN
       ELSE IF body \in {"inf", "infinity"} THEN Inf(sign)
       ELSE IF AllDigits(body) THEN Fin(sign * DigitsValue(body) * 10)
       ELSE IF /\ n >= 3
               /\ CharAt(body, n - 1) = "."
               /\ AllDigits(SubSeq(body, 1, n - 2))
               /\ CharAt(body, n) \in DigitSet
            THEN Fin(sign * (DigitsValue(SubSeq(body, 1, n - 2)) * 10 + DigitVal[CharAt(body, n)]))
       ELSE ValueError

\* lines 3741-3748: the divisor of the distance penalty of each mode
PenaltyDivisor(mode) ==
    IF mode = "DRIVING" THEN 20
    ELSE IF mode = "WALKING" THEN 2
    ELSE IF mode = "TRANSIT" THEN 10
    ELSE 5

\* lines 3741-3748: the cap of the distance penalty of each mode, in tenths
PenaltyCap(mode) ==
    IF mode = "DRIVING" THEN 10
    ELSE IF mode = "WALKING" THEN 20
    ELSE 15

\* min(distance_miles / divisor, cap) in units of 1/ScoreUnit; a quotient
\* above the cap is not formed, the result being the cap
CappedQuotient(miles, divisor, cap) ==
    IF IsFin(miles) /\ miles.fin > cap * divisor * (MileUnit \div 10)
    THEN Fin(cap * (ScoreUnit \div 10))
    ELSE FMin(FScale(miles, ScoreUnit \div (MileUnit * divisor)),
              Fin(cap * (ScoreUnit \div 10)))

\* the distance penalty with kilometres taken as miles
distance_penalty_km_as_miles(dist, mode) ==
    LET tokens == Split(dist)
        distance_value == IF Len(tokens) = 0 THEN IndexError ELSE float(tokens[1])
    IN IF Raised(distance_value) THEN Fin(ScoreUnit \div 2)
       ELSE CappedQuotient(FScale(distance_value, MileUnit \div 10),
                           PenaltyDivisor(mode), PenaltyCap(mode))

\* lines 3730-3750: the distance penalty, in units of 1/ScoreUnit
distance_penalty(dist, mode) ==
    LET tokens == Split(dist)
        distance_value == IF Len(tokens) = 0 THEN IndexError ELSE float(tokens[1])
        distance_unit == IF Len(tokens) > 1 THEN tokens[2] ELSE "mi"
        distance_miles ==
            IF StartsWith(Lower(distance_unit), "km")
            THEN FScale(distance_value, KmToMiles)
            ELSE FScale(distance_value, MileUnit \div 10)
    IN IF Raised(distance_value) THEN Fin(ScoreUnit \div 2)
       ELSE CappedQuotient(distance_miles, PenaltyDivisor(mode), PenaltyCap(mode))

\* base_scores.get(travel_mode, 5.0), in tenths
base_scores(mode) ==
    IF mode = "DRIVING" THEN 60
    ELSE IF mode = "WALKING" THEN 40
    ELSE IF mode = "TRANSIT" THEN 50
    ELSE IF mode = "BICYCLING" THEN 45
    ELSE 50

Min(a, b) == IF b < a THEN b ELSE a

\* lines 3714-3728, in tenths
police_bonus(n, mode) ==
    IF mode = "DRIVING" THEN Min(n * 3, 15)
    ELSE IF mode = "WALKING" THEN Min(n * 7, 30)
    ELSE IF mode = "TRANSIT" THEN Min(n * 5, 20)
    ELSE Min(n * 6, 25)

hospital_bonus(n, mode) ==
    IF mode = "DRIVING" THEN Min(n * 2, 10)
    ELSE IF mode = "WALKING" THEN Min(n * 5, 20)
    ELSE IF mode = "TRANSIT" THEN Min(n * 3, 15)
    ELSE Min(n * 4, 15)

\* a gas station bonus granted to every mode
gas_bonus_every_mode(n, mode) == Min(n * 2, 10)

gas_bonus(n, mode) == IF mode = "DRIVING" THEN Min(n * 2, 10) ELSE 0

\* round(x, 1) of a clamped score, the result in tenths; nan stays nan
Round1(x) ==
    IF ~IsFin(x) THEN x
    ELSE LET tenth == ScoreUnit \div 10
             q == x.fin \div tenth
             r == x.fin % tenth
         IN IF 2 * r < tenth THEN Fin(q)
            ELSE IF 2 * r > tenth THEN Fin(q + 1)
            ELSE IF q % 2 = 0 THEN Fin(q) ELSE Fin(q + 1)

\* lines 3702-3754; the result is in tenths
calculate_safety_score_by_mode(police, hosp, gas, dist, mode) ==
    LET bonuses == police_bonus(police, mode) + hospital_bonus(hosp, mode)
                   + gas_bonus(gas, mode)
        final_score == FSub(Fin((base_scores(mode) + bonuses) * (ScoreUnit \div 10)),
                            distance_penalty(dist, mode))
        clamped == FMax(FMin(final_score, Fin(10 * ScoreUnit)), Fin(ScoreUnit))
    IN Round1(clamped)

\* places of one kind found near the route
MaxPlaces == 6

TravelModes == {"DRIVING", "WALKING", "TRANSIT", "BICYCLING", "FLYING"}

\* distance texts: kilometres, miles, no unit, other units, a negative and
\* an unbounded value, texts float() rejects and texts it reads as nan or inf
DistanceTexts ==
    {"5 km", "3.2 mi", "12", "40 mi", "-2 mi", "3 KM", "7 kms", "2 m",
     "0.3 km", "abc", "", "mi 5", "nan mi", "inf mi", "-inf km"}

\* plan_route, lines 3565-3568: the score of the route is computed
CalculateSafetyScore ==
    /\ pc = "score"
    /\ safety_score' = calculate_safety_score_by_mode(police_stations, hospitals,
                            gas_stations, distance, travel_mode)
    /\ pc' = "scored"
    /\ UNCHANGED <<enabled, keyConfigured, genaiAvailable, user_message, ext,
                   moderation_result, trace, model_idx, response, context>>
    /\ UNCHANGED <<travel_mode, police_stations, hospitals, gas_stations, distance>>
    /\ UNCHANGED <<routeVars, storeVars>>

\* the chat handler is at rest and the moderator is off
ChatIdle ==
    /\ keyConfigured = FALSE
    /\ genaiAvailable = FALSE
    /\ enabled = FALSE
    /\ user_message = ""
    /\ ext = NoCall
    /\ moderation_result = NoVerdict
    /\ trace = <<>>
    /\ model_idx = 1
    /\ response = NoResponse
    /\ context = NoContext

\* no route is being analysed
RouteIdle ==
    /\ incidents = <<>>
    /\ route_steps = <<>>
    /\ route_segments = <<>>

\* a call of the score calculator: the places come from places_nearby, the
\* distance text from the directions service
InitScore ==
    /\ pc = "score"
    /\ ChatIdle
    /\ RouteIdle
    /\ StoreIdle
    /\ travel_mode \in TravelModes
    /\ police_stations \in 0..MaxPlaces
    /\ hospitals \in 0..MaxPlaces
    /\ gas_stations \in 0..MaxPlaces
    /\ distance \in DistanceTexts
    /\ safety_score = NoScore

NextScore == CalculateSafetyScore

SpecScore == InitScore /\ [][NextScore]_vars

-----------------------------------------------------------------------------
(* The incident store (FirestoreIncidentManager) and the incident endpoints.
   Times are whole hours on the server's UTC clock; latitudes and longitudes
   of stored documents are in ten-thousandths of a degree.  A value that may
   be None, a timestamp, a coordinate and a photo are tagged records, so that
   a document may hold a value of the wrong kind. *)

\* documents in the collection
MaxDocs == 2

\* the state of the moderator and the locals of the chat handler
chatLocals == <<enabled, keyConfigured, genaiAvailable, user_message, ext,
                moderation_result, trace, model_idx, response, context>>

None == [none |-> TRUE]

\* dict.get(key, default)
Get(data, key, default) == IF key \in DOMAIN data THEN data[key] ELSE default

\* datetime.utcnow(), in hours
Now == 1000

\* lines 628-677
_get_sample_incidents ==
    <<[id |-> "sample_1", type |-> "theft", location |-> "Downtown Bethesda, MD",
       lat |-> 389847, lng |-> 0 - 770947,
       description |-> "Bike theft near metro station", severity |-> "medium",
       timestamp |-> "2 hours ago", date |-> Now - 2, source |-> "sample_data",
       has_photo |-> FALSE, photo_data |-> None, photo_filename |-> None],
      [id |-> "sample_2", type |-> "suspicious", location |-> "Chevy Chase, MD",
       lat |-> 389686, lng |-> 0 - 770872,
       description |-> "Suspicious activity in parking garage", severity |-> "low",
       timestamp |-> "5 hours ago", date |-> Now - 5, source |-> "sample_data",
       has_photo |-> FALSE, photo_data |-> None, photo_filename |-> None],
      [id |-> "sample_3", type |-> "vandalism", location |-> "Silver Spring, MD",
       lat |-> 389912, lng |-> 0 - 770261,
       description |-> "Graffiti on building wall", severity |-> "low",
       timestamp |-> "1 day ago", date |-> Now - 24, source |-> "sample_data",
       has_photo |-> FALSE, photo_data |-> None, photo_filename |-> None]>>

\* lines 698-722, for a datetime dt: timedelta.days is the floor of the
\* difference in days and timedelta.seconds the rest
format_timestamp(dt) ==
    LET diff == Now - dt
        days == diff \div 24
        seconds == (diff % 24) * 3600
    IN IF days > 0 THEN ToString(days) \o " days ago"
       ELSE IF seconds > 3600 THEN ToString(seconds \div 3600) \o " hours ago"
       ELSE IF seconds > 60 THEN ToString(seconds \div 60) \o " minutes ago"
       ELSE "Just now"

\* lines 579-590: the time of a document.  A datetime [dt |-> t] is taken as
\* it is, a string in ISO format [iso |-> t] is parsed, any other string
\* makes fromisoformat raise, no timestamp means now
incident_time(data) ==
    LET created_at == Get(data, "created_at", None)
    IN IF created_at = None THEN [t |-> Now]
       ELSE IF "dt" \in DOMAIN created_at THEN [t |-> created_at.dt]
       ELSE IF "iso" \in DOMAIN created_at THEN [t |-> created_at.iso]
       ELSE ValueError

\* float(x) of a stored coordinate: a number [num |-> n] or a string
ToFloat(x) == IF "num" \in DOMAIN x THEN x ELSE ValueError

\* lines 576-612, the body of the loop: the incidents one document adds to
\* the list, none if it is out of the window or raises
DocIncidents(data, hours) ==
    LET time == incident_time(data)
        lat == ToFloat(Get(data, "latitude", [num |-> 0]))
        lng == ToFloat(Get(data, "longitude", [num |-> 0]))
    IN IF Raised(time) THEN <<>>
       ELSE IF ~(time.t >= Now - hours) THEN <<>>
       ELSE IF Raised(lat) \/ Raised(lng) THEN <<>>
       ELSE <<[id |-> Get(data, "incident_id", "doc.id"),
               type |-> Get(data, "type", "unknown"),
               location |-> Get(data, "location", "Unknown"),
               lat |-> lat.num,
               lng |-> lng.num,
               description |-> Get(data, "description", ""),
               severity |-> Get(data, "severity", "low"),
               timestamp |-> format_timestamp(time.t),
               date |-> time.t,
               source |-> Get(data, "source", "unknown"),
               has_photo |-> Get(data, "has_photo", FALSE),
               photo_data |-> Get(data, "photo_data", None),
               photo_filename |-> Get(data, "photo_filename", None)]>>

RECURSIVE ScanDocs(_, _)
\* lines 575-612: the loop over the streamed documents
ScanDocs(docs, hours) ==
    IF Len(docs) = 0 THEN <<>>
    ELSE DocIncidents(Head(docs), hours) \o ScanDocs(Tail(docs), hours)

\* x put behind the entries of a newest-first list that are not older
InsertByDate(sorted, x) ==
    LET k == Cardinality({i \in 1..Len(sorted) : sorted[i].date >= x.date})
    IN SubSeq(sorted, 1, k) \o <<x>> \o SubSeq(sorted, k + 1, Len(sorted))

RECURSIVE SortNewestFirst(_)
\* line 615: incidents.sort(key=lambda x: x['date'], reverse=True), stable
SortNewestFirst(list) ==
    IF Len(list) = 0 THEN <<>>
    ELSE InsertByDate(SortNewestFirst(SubSeq(list, 1, Len(list) - 1)), list[Len(list)])

\* line 567: where('status', '==', 'active').limit(limit * 2)
ActiveQuery(docs, limit) ==
    Prefix(SelectSeq(docs, LAMBDA data : "status" \in DOMAIN data /\ data.status = "active"),
           limit * 2)

\* a listing without the try/except around each document: the first
\* document that raises ends the listing in the outer handler
get_recent_incidents_no_inner_try(database, stream_ok, docs, limit, hours) ==
    IF ~database THEN _get_sample_incidents
    ELSE IF ~stream_ok THEN _get_sample_incidents
    ELSE IF \E i \in 1..Len(ActiveQuery(docs, limit)) :
                \/ Raised(incident_time(ActiveQuery(docs, limit)[i]))
                \/ Raised(ToFloat(Get(ActiveQuery(docs, limit)[i], "latitude", [num |-> 0])))
         THEN _get_sample_incidents
    ELSE LET found == SortNewestFirst(ScanDocs(ActiveQuery(docs, limit), hours))
         IN IF Len(found) = 0 THEN Prefix(_get_sample_incidents, limit)
            ELSE Prefix(found, limit)

\* a listing that hands back what it found, samples only without a store
get_recent_incidents_no_samples(database, stream_ok, docs, limit, hours) ==
    IF ~database THEN _get_sample_incidents
    ELSE IF ~stream_ok THEN _get_sample_incidents
    ELSE Prefix(SortNewestFirst(ScanDocs(ActiveQuery(docs, limit), hours)), limit)

\* lines 558-626; stream_ok is false when the query raises
get_recent_incidents(database, stream_ok, docs, limit, hours) ==
    IF ~database THEN _get_sample_incidents
    ELSE IF ~stream_ok THEN _get_sample_incidents
    ELSE LET found == SortNewestFirst(ScanDocs(ActiveQuery(docs, limit), hours))
         IN IF Len(found) = 0 THEN Prefix(_get_sample_incidents, limit)
            ELSE Prefix(found, limit)

\* line 679-681
get_all_incidents(database, stream_ok, docs) ==
    get_recent_incidents(database, stream_ok, docs, 1000, 24 * 30)

\* a photo kept whatever its size
PhotoKept_any_size(incident_data) ==
    /\ Get(incident_data, "has_photo", FALSE)
    /\ Get(incident_data, "photo_data", None) # None
    /\ Get(incident_data, "photo_data", None).b64len > 0

\* lines 491-504: the photo kept with the incident
PhotoKept(incident_data) ==
    /\ Get(incident_data, "has_photo", FALSE)
    /\ Get(incident_data, "photo_data", None) # None
    /\ Get(incident_data, "photo_data", None).b64len > 0
    /\ ~(incident_data.photo_data.b64len > 1024 * 1024)

\* lines 506-526
document_data(incident_data, incident_id) ==
    [incident_id |-> incident_id,
     type |-> incident_data.type,
     location |-> incident_data.location,
     latitude |-> [num |-> incident_data.lat],
     longitude |-> [num |-> incident_data.lng],
     description |-> incident_data.description,
     severity |-> incident_data.severity,
     created_at |-> [dt |-> Now],
     source |-> "user_report",
     status |-> "active",
     has_photo |-> PhotoKept(incident_data),
     photo_data |-> IF PhotoKept(incident_data) THEN incident_data.photo_data ELSE None,
     photo_filename |-> IF PhotoKept(incident_data)
                        THEN Get(incident_data, "photo_filename", None) ELSE None,
     photo_uploaded_at |-> IF PhotoKept(incident_data) THEN [dt |-> Now] ELSE None,
     reporter_info |-> [ip_address |-> Get(incident_data, "ip_address", ""),
                        user_agent |-> Get(incident_data, "user_agent", ""),
                        report_time |-> [dt |-> Now]]]

\* a returned record that carries the reporter's data
StoredIncident_with_reporter(document) ==
    [id |-> document.incident_id,
     type |-> document.type,
     location |-> document.location,
     lat |-> document.latitude.num,
     lng |-> document.longitude.num,
     description |-> document.description,
     severity |-> document.severity,
     timestamp |-> "Just now",
     date |-> Now,
     source |-> "user_report",
     has_photo |-> document.has_photo,
     photo_data |-> document.photo_data,
     photo_filename |-> document.photo_filename,
     reporter_info |-> document.reporter_info]

\* lines 538-552: the record store_incident returns
StoredIncident(document) ==
    [id |-> document.incident_id,
     type |-> document.type,
     location |-> document.location,
     lat |-> document.latitude.num,
     lng |-> document.longitude.num,
     description |-> document.description,
     severity |-> document.severity,
     timestamp |-> "Just now",
     date |-> Now,
     source |-> "user_report",
     has_photo |-> document.has_photo,
     photo_data |-> document.photo_data,
     photo_filename |-> document.photo_filename]

\* the restriction of a record to some of its fields
Restrict(f, S) == [k \in S |-> f[k]]

\* line 3427
required_fields == <<"type", "location", "description", "severity">>

\* a test that takes an empty value for a value
Missing_absent_only(data, field) == field \notin DOMAIN data

\* not data.get(field)
Missing(data, field) == field \notin DOMAIN data \/ data[field] = ""

\* a complete report
FullBody(severity, location) ==
    [type |-> "theft", location |-> location,
     description |-> "Bike stolen at the station", severity |-> severity]

\* the photo fields of a report with a base64 photo of the given length
PhotoFields(b64len) ==
    [has_photo |-> TRUE, photo_data |-> [b64len |-> b64len],
     photo_filename |-> [name |-> "photo.jpg"]]

\* the union of two records with disjoint fields
Merge(f, g) == [k \in DOMAIN f \cup DOMAIN g |-> IF k \in DOMAIN f THEN f[k] ELSE g[k]]

\* request bodies of POST /api/incidents: complete reports of every severity
\* value, reports with a photo within, at and above the size limit, and
\* reports with required fields missing or empty
RequestBodies ==
    {FullBody(sv, "Bethesda, MD") : sv \in {"low", "high", "critical"}}
    \cup {Merge(FullBody("medium", "Bethesda, MD"), PhotoFields(n)) :
            n \in {4, 1024 * 1024, 1024 * 1024 + 1}}
    \cup {Restrict(FullBody("low", "Bethesda, MD"), S) :
            S \in {{"location", "description", "severity"},
                   {"type", "description", "severity"},
                   {"type", "location", "severity"},
                   {"type", "location", "description"},
                   {"location", "description"}}}
    \cup {FullBody("", "Bethesda, MD"), FullBody("low", "")}

\* outcomes of gmaps.geocode: a result, an empty list, an exception
GeocodeOutcomes == {"found", "not_found", "error"}

\* request.remote_addr and the User-Agent header
RemoteAddr == "203.0.113.7"

UserAgent == "Mozilla/5.0"

\* lines 3445-3457
incident_data_of(data) ==
    [type |-> data.type,
     location |-> "Bethesda, MD 20814, USA",
     lat |-> 389847,
     lng |-> 0 - 770947,
     description |-> data.description,
     severity |-> data.severity,
     ip_address |-> RemoteAddr,
     user_agent |-> UserAgent,
     has_photo |-> Get(data, "has_photo", FALSE),
     photo_data |-> Get(data, "photo_data", None),
     photo_filename |-> Get(data, "photo_filename", None)]

\* x written over the entry at position k
InsertAt_overwriting(seq, k, x) ==
    IF k <= Len(seq) THEN [seq EXCEPT ![k] = x] ELSE Append(seq, x)

\* the sequence with x put at position k
InsertAt(seq, k, x) == SubSeq(seq, 1, k - 1) \o <<x>> \o SubSeq(seq, k, Len(seq))

\* the first required field the report lacks, 0 if it has all four
FirstMissing(data) ==
    IF \E i \in 1..Len(required_fields) : Missing(data, required_fields[i])
    THEN CHOOSE i \in 1..Len(required_fields) :
            /\ Missing(data, required_fields[i])
            /\ \A j \in 1..(i - 1) : ~Missing(data, required_fields[j])
    ELSE 0

\* the handler's locals of the other endpoints are not live
ApiLocalsReset ==
    /\ incidents' = <<>>
    /\ UNCHANGED <<route_steps, route_segments>>

\* POST /api/incidents, lines 3420-3473, with store_incident, lines 481-556.
\* The document gets a fresh uuid and so any place in the stream order.
CreateIncident ==
    /\ pc = "api"
    /\ \E data \in RequestBodies :
        /\ request' = [op |-> "create_incident", json |-> data]
        /\ IF FirstMissing(data) # 0
           THEN /\ api_response' =
                     [status |-> 400,
                      body |-> [error |-> "Missing required field: "
                                          \o required_fields[FirstMissing(data)]]]
                /\ api_trace' = <<>>
                /\ store' = store
           ELSE IF ~gmaps
           THEN /\ api_response' =
                     [status |-> 500,
                      body |-> [error |-> "Google Maps not available for geocoding"]]
                /\ api_trace' = <<>>
                /\ store' = store
           ELSE \E geo \in GeocodeOutcomes :
                IF geo = "error"
                THEN /\ api_response' = [status |-> 500, body |-> [error |-> "str(e)"]]
                     /\ api_trace' = <<"geocode">>
                     /\ store' = store
                ELSE IF geo = "not_found"
                THEN /\ api_response' = [status |-> 400,
                                         body |-> [error |-> "Location not found"]]
                     /\ api_trace' = <<"geocode">>
                     /\ store' = store
                ELSE IF ~db
                THEN /\ api_response' = [status |-> 500,
                                         body |-> [error |-> "Failed to store incident"]]
                     /\ api_trace' = <<"geocode", "store_incident">>
                     /\ store' = store
                ELSE \E set_ok \in BOOLEAN :
                     IF ~set_ok
                     THEN /\ api_response' =
                               [status |-> 500,
                                body |-> [error |-> "Failed to store incident"]]
                          /\ api_trace' = <<"geocode", "store_incident">>
                          /\ store' = store
                     ELSE /\ Len(store) < MaxDocs
                          /\ \E place \in 1..(Len(store) + 1) :
                                LET document ==
                                        document_data(incident_data_of(data),
                                                      "doc" \o ToString(Len(store) + 1))
                                IN /\ store' = InsertAt(store, place, document)
                                   /\ api_response' =
                                        [status |-> 201, body |-> StoredIncident(document)]
                          /\ api_trace' = <<"geocode", "store_incident">>
    /\ ApiLocalsReset
    /\ UNCHANGED <<pc, db, gmaps>>
    /\ UNCHANGED chatLocals
    /\ UNCHANGED scoreVars

\* the calls get_recent_incidents makes: none without a client, else the
\* query stream, which returns or raises
StreamTrace(database, stream_ok) ==
    IF ~database THEN <<>>
    ELSE IF stream_ok THEN <<"stream">>
    ELSE <<"stream raised">>

\* the query parameters of GET /api/incidents
HoursChoices == {1, 24 * 7}

LimitChoices == {1, 2}

\* GET /api/incidents, lines 3406-3418
GetIncidents ==
    /\ pc = "api"
    /\ \E hours \in HoursChoices, limit \in LimitChoices, stream_ok \in BOOLEAN :
        /\ request' = [op |-> "get_incidents", hours |-> hours, limit |-> limit]
        /\ api_response' =
              [status |-> 200,
               body |-> get_recent_incidents(db, stream_ok, store, limit, hours)]
        /\ api_trace' = StreamTrace(db, stream_ok)
    /\ ApiLocalsReset
    /\ UNCHANGED <<pc, db, gmaps, store>>
    /\ UNCHANGED chatLocals
    /\ UNCHANGED scoreVars

\* POST /api/ai-chat, line 3324: the handler reads the incidents of 30 days
AiChatReadsIncidents ==
    /\ pc = "api"
    /\ \E stream_ok \in BOOLEAN :
        /\ incidents' = get_recent_incidents(db, stream_ok, store, 1000, 24 * 30)
        /\ api_trace' = StreamTrace(db, stream_ok)
    /\ request' = [op |-> "ai_chat"]
    /\ api_response' = NoApiResponse
    /\ UNCHANGED <<route_steps, route_segments>>
    /\ UNCHANGED <<pc, db, gmaps, store>>
    /\ UNCHANGED chatLocals
    /\ UNCHANGED scoreVars

\* POST /api/route, line 3531: the handler reads all incidents
PlanRouteReadsIncidents ==
    /\ pc = "api"
    /\ \E stream_ok \in BOOLEAN :
        /\ incidents' = get_all_incidents(db, stream_ok, store)
        /\ api_trace' = StreamTrace(db, stream_ok)
    /\ request' = [op |-> "plan_route"]
    /\ api_response' = NoApiResponse
    /\ UNCHANGED <<route_steps, route_segments>>
    /\ UNCHANGED <<pc, db, gmaps, store>>
    /\ UNCHANGED chatLocals
    /\ UNCHANGED scoreVars

\* GET /api/safety-resources, lines 3347-3404: the places service is asked,
\* the incident store is not
GetSafetyResources ==
    /\ pc = "api"
    /\ \E places_ok \in BOOLEAN :
        /\ request' = [op |-> "safety_resources"]
        /\ api_response' = IF gmaps /\ places_ok
                           THEN [status |-> 200, body |-> [resources |-> "places"]]
                           ELSE [status |-> 500, body |-> [error |-> "str(e)"]]
        /\ api_trace' = IF gmaps THEN <<"places_nearby">> ELSE <<>>
    /\ ApiLocalsReset
    /\ UNCHANGED <<pc, db, gmaps, store>>
    /\ UNCHANGED chatLocals
    /\ UNCHANGED scoreVars

\* a document as store_incident writes it
StoredDoc(severity, created, ip) ==
    [document_data([incident_data_of(FullBody(severity, "Bethesda, MD"))
                        EXCEPT !.ip_address = ip], "")
        EXCEPT !.created_at = created, !.reporter_info.report_time = created]

\* documents found in the collection at start: reports of an hour and of 200
\* hours ago, a report whose timestamp is an ISO string, one whose timestamp
\* is no date, one whose latitude is no number, one with neither timestamp
\* nor severity nor coordinates, and one that is not active
InitialDocs ==
    {StoredDoc("high", [dt |-> Now - 1], "198.51.100.1"),
     StoredDoc("low", [dt |-> Now - 200], "198.51.100.2"),
     StoredDoc("medium", [iso |-> Now - 3], ""),
     StoredDoc("low", [str |-> "yesterday"], ""),
     [StoredDoc("medium", [dt |-> Now - 1], "") EXCEPT !.latitude = [str |-> "abc"]],
     Restrict(StoredDoc("low", [dt |-> Now - 1], ""),
              {"incident_id", "type", "location", "description", "status"}),
     [StoredDoc("high", [dt |-> Now - 1], "") EXCEPT !.status = "resolved"]}

\* the documents numbered in stream order
WithIds(docs) == [i \in 1..Len(docs) |-> [docs[i] EXCEPT !.incident_id = "doc" \o ToString(i)]]

\* the service starts with or without Firestore and Google Maps clients
\* (lines 44-74); the collection holds earlier documents
InitStore ==
    /\ pc = "api"
    /\ ChatIdle
    /\ RouteIdle
    /\ ScoreIdle
    /\ db \in BOOLEAN
    /\ gmaps \in BOOLEAN
    /\ store \in {WithIds(docs) : docs \in ListsOf(InitialDocs, 0, MaxDocs)}
    /\ ~db => store = <<>>
    /\ request = NoRequest
    /\ api_response = NoApiResponse
    /\ api_trace = <<>>

NextStore ==
    \/ CreateIncident
    \/ GetIncidents
    \/ AiChatReadsIncidents
    \/ PlanRouteReadsIncidents
    \/ GetSafetyResources

SpecStore == InitStore /\ [][NextStore]_vars

-----------------------------------------------------------------------------
(* initialize_sample_data, run by the main block at every start of the
   service, line 3937 *)

\* lines 683-696: the number of active documents, 3 without a client or
\* when the query raises
get_incidents_count(database, stream_ok, docs) ==
    IF ~database THEN 3
    ELSE IF ~stream_ok THEN 3
    ELSE Len(SelectSeq(docs, LAMBDA data : "status" \in DOMAIN data /\ data.status = "active"))

\* lines 3841-3866
sample_incidents ==
    <<[type |-> "theft", location |-> "Downtown Bethesda, MD",
       lat |-> 389847, lng |-> 0 - 770947,
       description |-> "Bike theft near metro station", severity |-> "medium"],
      [type |-> "suspicious", location |-> "Chevy Chase, MD",
       lat |-> 389686, lng |-> 0 - 770872,
       description |-> "Suspicious activity in parking garage", severity |-> "low"],
      [type |-> "vandalism", location |-> "Silver Spring, MD",
       lat |-> 389912, lng |-> 0 - 770261,
       description |-> "Graffiti on building wall", severity |-> "low"]>>

\* documents the collection holds at most; a write beyond it is not taken
MaxStored == 6

RECURSIVE StoresAfter(_, _)
\* lines 3868-3869: the collections the loop may leave.  Each store_incident
\* writes its document under a fresh uuid or fails and returns None (lines
\* 554-556).  The new documents are put at the end of the stream order:
\* the count of line 3836 does not read the order
StoresAfter(docs, samples) ==
    IF Len(samples) = 0 THEN {docs}
    ELSE StoresAfter(docs, Tail(samples))
         \cup (IF Len(docs) < MaxStored
               THEN StoresAfter(InsertAt(docs, Len(docs) + 1,
                                         document_data(Head(samples),
                                                       "doc" \o ToString(Len(docs) + 1))),
                                Tail(samples))
               ELSE {})

\* the threshold of line 3838
SampleThreshold == 3

\* initialize_sample_data, lines 3833-3876; without a client store_incident
\* returns None at line 486
InitializeSampleData ==
    /\ pc = "startup"
    /\ \E stream_ok \in BOOLEAN :
        LET existing_count == get_incidents_count(db, stream_ok, store)
        IN /\ request' = [op |-> "initialize_sample_data", existing_count |-> existing_count]
           /\ api_trace' = StreamTrace(db, stream_ok)
           /\ IF existing_count <= SampleThreshold /\ db
              THEN store' \in StoresAfter(store, sample_incidents)
              ELSE store' = store
    /\ api_response' = NoApiResponse
    /\ ApiLocalsReset
    /\ UNCHANGED <<pc, db, gmaps>>
    /\ UNCHANGED chatLocals
    /\ UNCHANGED scoreVars

\* documents found in the collection when the service starts: an active
\* report and a resolved one
StartupDocs ==
    {StoredDoc("high", [dt |-> Now - 1], "198.51.100.1"),
     [StoredDoc("low", [dt |-> Now - 200], "") EXCEPT !.status = "resolved"]}

\* the service starts, with or without a Firestore client (lines 64-74)
InitStartup ==
    /\ pc = "startup"
    /\ ChatIdle
    /\ RouteIdle
    /\ ScoreIdle
    /\ db \in BOOLEAN
    /\ gmaps = FALSE
    /\ store \in {WithIds(docs) : docs \in ListsOf(StartupDocs, 0, MaxDocs)}
    /\ ~db => store = <<>>
    /\ request = NoRequest
    /\ api_response = NoApiResponse
    /\ api_trace = <<>>

NextStartup == InitializeSampleData

SpecStartup == InitStartup /\ [][NextStartup]_vars

-----------------------------------------------------------------------------
(* create_safety_context, lines 731-784 *)

KeyError == [error |-> "KeyError"]

\* d[k] = v on a dict
Put(f, k, v) == [x \in DOMAIN f \cup {k} |-> IF x = k THEN v ELSE f[x]]

\* lines 733-741
EmptyContext(incs) ==
    [has_local_data     |-> Len(incs) > 0,
     total_incidents    |-> Len(incs),
     incident_types     |-> <<>>,
     recent_locations   |-> <<>>,
     severity_breakdown |-> [high |-> 0, medium |-> 0, low |-> 0],
     location_breakdown |-> <<>>,
     location_incidents |-> <<>>]

\* lines 763-769: the entry of a location seen for the first time
NewLocation == [total |-> 0, types |-> <<>>, severity |-> [high |-> 0, medium |-> 0, low |-> 0]]

\* a turn of the loop that collects every location, however many
AddIncident_uncapped_locations(ctx, incident) ==
    LET incident_type == Get(incident, "type", "unknown")
        severity == Get(incident, "severity", "low")
        location == Get(incident, "location", "")
        breakdown == Get(ctx.location_breakdown, location, NewLocation)
        details == [type |-> incident_type, severity |-> severity,
                    description |-> Get(incident, "description", ""),
                    timestamp |-> Get(incident, "timestamp", "")]
    IN IF Raised(ctx) THEN ctx
       ELSE IF severity \notin DOMAIN ctx.severity_breakdown THEN KeyError
       ELSE [ctx EXCEPT
               !.incident_types = Put(@, incident_type, Get(@, incident_type, 0) + 1),
               !.severity_breakdown[severity] = @ + 1,
               !.recent_locations = IF location # ""
                                    THEN Append(@, location) ELSE @,
               !.location_breakdown =
                   IF location # ""
                   THEN Put(@, location,
                            [total    |-> breakdown.total + 1,
                             types    |-> Put(breakdown.types, incident_type,
                                              Get(breakdown.types, incident_type, 0) + 1),
                             severity |-> [breakdown.severity EXCEPT ![severity] = @ + 1]])
                   ELSE @,
               !.location_incidents =
                   IF location # ""
                   THEN Put(@, location, Append(Get(@, location, <<>>), details))
                   ELSE @]

\* lines 746-782, one turn of the loop; severity_breakdown[severity] raises
\* KeyError for a severity that is none of its three keys
AddIncident(ctx, incident) ==
    LET incident_type == Get(incident, "type", "unknown")
        severity == Get(incident, "severity", "low")
        location == Get(incident, "location", "")
        breakdown == Get(ctx.location_breakdown, location, NewLocation)
        details == [type |-> incident_type, severity |-> severity,
                    description |-> Get(incident, "description", ""),
                    timestamp |-> Get(incident, "timestamp", "")]
    IN IF Raised(ctx) THEN ctx
       ELSE IF severity \notin DOMAIN ctx.severity_breakdown THEN KeyError
       ELSE [ctx EXCEPT
               !.incident_types = Put(@, incident_type, Get(@, incident_type, 0) + 1),
               !.severity_breakdown[severity] = @ + 1,
               !.recent_locations = IF location # "" /\ Len(@) < 5
                                    THEN Append(@, location) ELSE @,
               !.location_breakdown =
                   IF location # ""
                   THEN Put(@, location,
                            [total    |-> breakdown.total + 1,
                             types    |-> Put(breakdown.types, incident_type,
                                              Get(breakdown.types, incident_type, 0) + 1),
                             severity |-> [breakdown.severity EXCEPT ![severity] = @ + 1]])
                   ELSE @,
               !.location_incidents =
                   IF location # ""
                   THEN Put(@, location, Append(Get(@, location, <<>>), details))
                   ELSE @]

RECURSIVE BuildContext(_, _)
\* the loop of line 745
BuildContext(ctx, incs) ==
    IF Len(incs) = 0 THEN ctx
    ELSE BuildContext(AddIncident(ctx, Head(incs)), Tail(incs))

create_safety_context(incs) == BuildContext(EmptyContext(incs), incs)

\* incidents handed to create_safety_context
MaxContextIncidents == 6

\* incidents of two types at two places, one without a place, one with a
\* severity outside the three keys, one with none of the fields read
ContextIncidentKinds ==
    {[type |-> "theft", severity |-> "high", location |-> "Bethesda, MD",
      description |-> "Bike stolen", timestamp |-> "2 hours ago"],
     [type |-> "assault", severity |-> "low", location |-> "Chevy Chase, MD",
      description |-> "", timestamp |-> "1 days ago"],
     [type |-> "theft", severity |-> "medium", location |-> "",
      description |-> "Bag stolen", timestamp |-> "Just now"],
     [type |-> "theft", severity |-> "critical", location |-> "Bethesda, MD",
      description |-> "", timestamp |-> "Just now"],
     [id |-> "doc1"]}

\* ai_chat, line 3325, on its own
CreateSafetyContext ==
    /\ pc = "incidents"
    /\ context' = create_safety_context(incidents)
    /\ pc' = "context built"
    /\ UNCHANGED <<enabled, keyConfigured, genaiAvailable, user_message, ext,
                   moderation_result, trace, model_idx, response>>
    /\ UNCHANGED <<routeVars, scoreVars, storeVars>>

\* a list of incidents as get_recent_incidents or a caller may hand it over
InitContext ==
    /\ pc = "incidents"
    /\ ChatIdle
    /\ ScoreIdle
    /\ StoreIdle
    /\ incidents \in ListsOf(ContextIncidentKinds, 0, MaxContextIncidents)
    /\ route_steps = <<>>
    /\ route_segments = <<>>

NextContext == CreateSafetyContext

SpecContext == InitContext /\ [][NextContext]_vars

-----------------------------------------------------------------------------
(* POST /api/ai-chat, lines 3302-3345 *)

\* ai_chat, lines 3306-3310: the message is read and an empty one is refused
ReceiveChatOf(msgs) ==
    /\ pc = "idle"
    /\ \E m \in msgs :
        /\ user_message' = m
        /\ IF m = ""
           THEN /\ pc' = "done"
                /\ response' = [status |-> 400, kind |-> "error", body |-> "Message is required"]
           ELSE /\ pc' = "moderate"
                /\ response' = NoResponse
    /\ ext' = NoCall
    /\ moderation_result' = NoVerdict
    /\ trace' = <<>>
    /\ model_idx' = 1
    /\ context' = NoContext
    /\ UNCHANGED <<enabled, keyConfigured, genaiAvailable>>
    /\ UNCHANGED <<routeVars, scoreVars, storeVars>>

ReceiveChat == ReceiveChatOf(Messages \cup {""})

\* ai_chat, lines 3306-3307: a body that is no JSON object, or a message that
\* is no string, raises before the message is known
ReceiveMalformed ==
    /\ pc = "idle"
    /\ pc' = "error"
    /\ user_message' = ""
    /\ response' = NoResponse
    /\ ext' = NoCall
    /\ moderation_result' = NoVerdict
    /\ trace' = <<>>
    /\ model_idx' = 1
    /\ context' = NoContext
    /\ UNCHANGED <<enabled, keyConfigured, genaiAvailable>>
    /\ UNCHANGED <<routeVars, scoreVars, storeVars>>

\* a layer that asks the model whatever the keyword scan found
ModelCallMade_always(on, message) == on

\* the content-safety layer reaches generate_content
ModelCallMade(on, message) == on /\ ~DangerousKeyword(message)

\* ai_chat going on to the incident store whatever the verdict
CheckContent_verdict_ignored ==
    /\ pc = "moderate"
    /\ \E o \in IF ModelCallMade(enabled, user_message) THEN ExtOutcomes ELSE {NoCall} :
        /\ ext' = o
        /\ moderation_result' = check_content(enabled, user_message, o)
        /\ pc' = "context"
    /\ trace' = Append(trace, "check_content")
    /\ UNCHANGED <<enabled, keyConfigured, genaiAvailable, user_message, model_idx, response, context>>
    /\ UNCHANGED <<routeVars, scoreVars, storeVars>>

\* ai_chat, line 3313: content_moderator.check_content(user_message)
CheckContent ==
    /\ pc = "moderate"
    /\ \E o \in IF ModelCallMade(enabled, user_message) THEN ExtOutcomes ELSE {NoCall} :
        /\ ext' = o
        /\ moderation_result' = check_content(enabled, user_message, o)
        /\ pc' = IF moderation_result'.blocked THEN "blocked" ELSE "context"
    /\ trace' = Append(trace, "check_content")
    /\ UNCHANGED <<enabled, keyConfigured, genaiAvailable, user_message, model_idx, response, context>>
    /\ UNCHANGED <<routeVars, scoreVars, storeVars>>

\* lines 3760-3801: the audit log functions write only with a Firestore
\* client and keep a failed write to themselves
LogEntry(name, database, add_ok) ==
    IF database /\ ~add_ok THEN name \o " failed" ELSE name

\* ai_chat, lines 3315-3321: the blocked branch
RespondBlocked ==
    /\ pc = "blocked"
    /\ \E add_ok \in BOOLEAN :
        trace' = Append(trace, LogEntry("log_vertex_ai_moderation_action", db, add_ok))
    /\ response' = [status |-> 200, kind |-> "filtered",
                    body |-> get_vertex_ai_filtered_response(moderation_result)]
    /\ pc' = "done"
    /\ UNCHANGED <<enabled, keyConfigured, genaiAvailable, user_message, ext,
                   moderation_result, model_idx, context>>
    /\ UNCHANGED <<routeVars, scoreVars, storeVars>>

\* a handler without the outer try: the KeyError of create_safety_context
\* leaves ai_chat and the framework answers 500
ReadIncidents_uncaught ==
    /\ pc = "context"
    /\ \E stream_ok \in BOOLEAN :
        incidents' = get_recent_incidents(db, stream_ok, store, 1000, 24 * 30)
    /\ context' = create_safety_context(incidents')
    /\ trace' = Append(trace, "get_recent_incidents")
    /\ IF Raised(context')
       THEN /\ pc' = "done"
            /\ response' = [status |-> 500, kind |-> "exception", body |-> "KeyError"]
       ELSE /\ pc' = "gemini"
            /\ response' = response
    /\ UNCHANGED <<enabled, keyConfigured, genaiAvailable, user_message, ext,
                   moderation_result, model_idx>>
    /\ UNCHANGED <<route_steps, route_segments, scoreVars, storeVars>>

\* ai_chat, lines 3323-3325: the incident store is read and the context
\* built; an exception of create_safety_context goes to line 3341
ReadIncidents ==
    /\ pc = "context"
    /\ \E stream_ok \in BOOLEAN :
        incidents' = get_recent_incidents(db, stream_ok, store, 1000, 24 * 30)
    /\ context' = create_safety_context(incidents')
    /\ trace' = Append(trace, "get_recent_incidents")
    /\ pc' = IF Raised(context') THEN "error" ELSE "gemini"
    /\ UNCHANGED <<enabled, keyConfigured, genaiAvailable, user_message, ext,
                   moderation_result, model_idx, response>>
    /\ UNCHANGED <<route_steps, route_segments, scoreVars, storeVars>>

\* ai_chat, line 3329: no API key, the model is not asked
SkipGemini ==
    /\ pc = "gemini"
    /\ ~keyConfigured
    /\ pc' = "fallback"
    /\ UNCHANGED <<enabled, keyConfigured, genaiAvailable, user_message, ext,
                   moderation_result, trace, model_idx, response, context>>
    /\ UNCHANGED <<routeVars, scoreVars, storeVars>>

\* get_enhanced_gemini_response, lines 789-790: raises, caught at line 3333
GeminiUnavailable ==
    /\ pc = "gemini"
    /\ keyConfigured
    /\ ~genaiAvailable
    /\ pc' = "fallback"
    /\ UNCHANGED <<enabled, keyConfigured, genaiAvailable, user_message, ext,
                   moderation_result, trace, model_idx, response, context>>
    /\ UNCHANGED <<routeVars, scoreVars, storeVars>>

\* lines 834-837: the prompt template for a context
PromptTemplate(ctx) ==
    IF ctx.has_local_data THEN "create_local_data_prompt"
    ELSE "create_general_safety_prompt"

\* what one turn of the loop can meet: generate_content raises, answers
\* without text, or answers with text
ModelOutcomes == {"raise", "empty", "text"}

\* a loop that gives up at the first model that fails
TryModel_no_cascade ==
    /\ pc = "gemini"
    /\ keyConfigured
    /\ genaiAvailable
    /\ model_idx <= Len(model_names)
    /\ \E outcome \in ModelOutcomes :
        IF outcome = "text"
        THEN /\ \E add_ok \in BOOLEAN :
                trace' = trace \o <<model_names[model_idx], PromptTemplate(context),
                                    LogEntry("log_successful_vertex_ai_interaction", db, add_ok)>>
             /\ response' = [status |-> 200, kind |-> "gemini", body |-> model_names[model_idx]]
             /\ pc' = "done"
             /\ model_idx' = model_idx
        ELSE /\ trace' = trace \o <<model_names[model_idx], PromptTemplate(context)>>
             /\ model_idx' = Len(model_names) + 1
             /\ UNCHANGED <<pc, response>>
    /\ UNCHANGED <<enabled, keyConfigured, genaiAvailable, user_message, ext,
                   moderation_result, context>>
    /\ UNCHANGED <<routeVars, scoreVars, storeVars>>

\* get_enhanced_gemini_response, lines 819-848: one turn of the loop, and for
\* a model that answers with text lines 3331-3332 of ai_chat
TryModel ==
    /\ pc = "gemini"
    /\ keyConfigured
    /\ genaiAvailable
    /\ model_idx <= Len(model_names)
    /\ \E outcome \in ModelOutcomes :
        IF outcome = "text"
        THEN /\ \E add_ok \in BOOLEAN :
                trace' = trace \o <<model_names[model_idx], PromptTemplate(context),
                                    LogEntry("log_successful_vertex_ai_interaction", db, add_ok)>>
             /\ response' = [status |-> 200, kind |-> "gemini", body |-> model_names[model_idx]]
             /\ pc' = "done"
             /\ model_idx' = model_idx
        ELSE /\ trace' = trace \o <<model_names[model_idx], PromptTemplate(context)>>
             /\ model_idx' = model_idx + 1
             /\ UNCHANGED <<pc, response>>
    /\ UNCHANGED <<enabled, keyConfigured, genaiAvailable, user_message, ext,
                   moderation_result, context>>
    /\ UNCHANGED <<routeVars, scoreVars, storeVars>>

\* get_enhanced_gemini_response, line 850: raises, caught at line 3333
AllModelsFailed ==
    /\ pc = "gemini"
    /\ keyConfigured
    /\ genaiAvailable
    /\ model_idx > Len(model_names)
    /\ pc' = "fallback"
    /\ UNCHANGED <<enabled, keyConfigured, genaiAvailable, user_message, ext,
                   moderation_result, trace, model_idx, response, context>>
    /\ UNCHANGED <<routeVars, scoreVars, storeVars>>

\* get_clean_fallback_response, lines 1057-1310: the template of the reply
\* for a message in lower case
FallbackTemplate(message_lower) ==
    IF AnyIn(<<"safe", "safety", "night", "walk", "shopping", "downtown">>, message_lower)
    THEN "safety"
    ELSE IF AnyIn(<<"crime", "rate", "statistics", "chicago", "san diego", "bethesda",
                    "new york">>, message_lower)
    THEN "crime statistics"
    ELSE IF AnyIn(<<"theft", "stolen", "robbery", "burglary">>, message_lower)
    THEN "theft"
    ELSE IF AnyIn(<<"incident", "crime", "report">>, message_lower)
    THEN "incidents"
    ELSE "generic"

\* ai_chat, lines 3336-3339: the templated reply
RespondFallback ==
    /\ pc = "fallback"
    /\ \E add_ok \in BOOLEAN :
        trace' = Append(trace, LogEntry("log_successful_vertex_ai_interaction", db, add_ok))
    /\ \E message_lower \in {Lower(user_message)} :
        response' = [status |-> 200, kind |-> "fallback", body |-> FallbackTemplate(message_lower)]
    /\ pc' = "done"
    /\ UNCHANGED <<enabled, keyConfigured, genaiAvailable, user_message, ext,
                   moderation_result, model_idx, context>>
    /\ UNCHANGED <<routeVars, scoreVars, storeVars>>

\* ai_chat, lines 3341-3345: the handler of every exception
RespondError ==
    /\ pc = "error"
    /\ response' = [status |-> 200, kind |-> "technical",
                    body |-> "I'm having technical difficulties. Please try again in a moment."]
    /\ pc' = "done"
    /\ UNCHANGED <<enabled, keyConfigured, genaiAvailable, user_message, ext,
                   moderation_result, trace, model_idx, context>>
    /\ UNCHANGED <<routeVars, scoreVars, storeVars>>

\* the handler has returned and its locals are gone; the next request may come
Return ==
    /\ pc = "done"
    /\ pc' = "idle"
    /\ user_message' = ""
    /\ ext' = NoCall
    /\ moderation_result' = NoVerdict
    /\ trace' = <<>>
    /\ model_idx' = 1
    /\ response' = NoResponse
    /\ context' = NoContext
    /\ incidents' = <<>>
    /\ UNCHANGED <<enabled, keyConfigured, genaiAvailable>>
    /\ UNCHANGED <<route_steps, route_segments, scoreVars, storeVars>>

\* the module-level set-up, lines 35-61 and 98-124: the moderator is enabled
\* only with a configured key, a loaded client and a passed connection test;
\* the service runs without a Firestore client
Init ==
    /\ keyConfigured \in BOOLEAN
    /\ genaiAvailable \in BOOLEAN
    /\ enabled \in BOOLEAN
    /\ enabled => (keyConfigured /\ genaiAvailable)
    /\ pc = "idle"
    /\ user_message = ""
    /\ ext = NoCall
    /\ moderation_result = NoVerdict
    /\ trace = <<>>
    /\ model_idx = 1
    /\ response = NoResponse
    /\ context = NoContext
    /\ incidents = <<>>
    /\ route_steps = <<>>
    /\ route_segments = <<>>
    /\ ScoreIdle
    /\ StoreIdle

Next ==
    \/ ReceiveChat
    \/ ReceiveMalformed
    \/ CheckContent
    \/ RespondBlocked
    \/ ReadIncidents
    \/ SkipGemini
    \/ GeminiUnavailable
    \/ TryModel
    \/ AllModelsFailed
    \/ RespondFallback
    \/ RespondError
    \/ Return

Spec == Init /\ [][Next]_vars

-----------------------------------------------------------------------------
(* POST /api/ai-chat over a Firestore collection *)

\* chat messages: one for each fallback template, a blocked one, an empty one
ChatMessages == {"", "bomb", "night walk", "crime rate", "stolen", "report", "route"}

ReceiveChatMessage == ReceiveChatOf(ChatMessages)

\* documents of the collection: a report of yesterday, one older than the
\* thirty days read, one with a severity the form does not offer, a resolved one
ChatDocs ==
    {StoredDoc("high", [dt |-> Now - 1], "198.51.100.1"),
     StoredDoc("low", [dt |-> Now - 800], ""),
     StoredDoc("critical", [dt |-> Now - 1], ""),
     [StoredDoc("medium", [dt |-> Now - 1], "") EXCEPT !.status = "resolved"]}

\* the service starts with or without a Firestore client (lines 64-74) and
\* with any set-up of the moderator and the response models; the collection
\* is one of stores
InitChatOver(stores) ==
    /\ keyConfigured \in BOOLEAN
    /\ genaiAvailable \in BOOLEAN
    /\ enabled \in BOOLEAN
    /\ enabled => (keyConfigured /\ genaiAvailable)
    /\ pc = "idle"
    /\ user_message = ""
    /\ ext = NoCall
    /\ moderation_result = NoVerdict
    /\ trace = <<>>
    /\ model_idx = 1
    /\ response = NoResponse
    /\ context = NoContext
    /\ RouteIdle
    /\ ScoreIdle
    /\ db \in BOOLEAN
    /\ gmaps = FALSE
    /\ store \in stores
    /\ ~db => store = <<>>
    /\ request = NoRequest
    /\ api_response = NoApiResponse
    /\ api_trace = <<>>

InitChat == InitChatOver({WithIds(docs) : docs \in ListsOf(ChatDocs, 0, MaxDocs)})

NextChat ==
    \/ ReceiveChatMessage
    \/ ReceiveMalformed
    \/ CheckContent
    \/ RespondBlocked
    \/ ReadIncidents
    \/ SkipGemini
    \/ GeminiUnavailable
    \/ TryModel
    \/ AllModelsFailed
    \/ RespondFallback
    \/ RespondError
    \/ Return

SpecChat == InitChat /\ [][NextChat]_vars

\* collections for the runs to completion: an empty one, one report of
\* yesterday, one report with a severity the form does not offer, and one
\* with nothing active in the thirty days read
ChatStores ==
    {<<>>,
     WithIds(<<StoredDoc("high", [dt |-> Now - 1], "198.51.100.1")>>),
     WithIds(<<StoredDoc("critical", [dt |-> Now - 1], "")>>),
     WithIds(<<StoredDoc("low", [dt |-> Now - 800], ""),
               [StoredDoc("medium", [dt |-> Now - 1], "") EXCEPT !.status = "resolved"]>>)}

InitChatFair == InitChatOver(ChatStores)

\* the handler runs on: every step of a request that is being answered is
\* taken (Flask runs the view function to its return)
SpecChatFair == InitChatFair /\ [][NextChat]_vars /\ WF_vars(NextChat)

-----------------------------------------------------------------------------
(* Properties of the content moderator and of the chat handler *)

\* check_content has returned for the current request
Moderated == moderation_result.method # "none"

FullMode == Moderated /\ moderation_result.method = "vertex_ai_safety"

FallbackMode == Moderated /\ moderation_result.method = "basic_fallback"

\* the four layer results of the current request, as the layers compute them
Layers == SafetyResults(user_message, ext)

\* the tier the specification assigns to a set of blocking layers
ExpectedTier(results) ==
    IF results["content_safety"].blocked \/ results["security_privacy"].blocked THEN "HIGH_RISK"
    ELSE IF results["brand_safety"].blocked THEN "MEDIUM_RISK"
    ELSE IF results["alignment_check"].blocked THEN "LOW_RISK"
    ELSE "SAFE"

\* C1: in full mode the risk tier of the verdict is HIGH_RISK when the
\* content-safety or security/privacy layer blocked, MEDIUM_RISK when brand
\* safety blocked and neither of those did, LOW_RISK when only alignment
\* blocked, and SAFE exactly when no layer blocked.
C1_RiskTierFollowsLayers ==
    FullMode => moderation_result.risk_assessment = ExpectedTier(Layers)

\* C2: every message containing "bomb" in any letter case is blocked with
\* risk tier HIGH_RISK, with the external model enabled or not.
C2_BombIsHighRisk ==
    (Moderated /\ Contains(Lower(user_message), "bomb"))
        => (moderation_result.blocked /\ moderation_result.risk_assessment = "HIGH_RISK")

\* the violation record a blocking layer result must yield
RecordOf(layer) ==
    [type |-> layer.category, score |-> layer.confidence, threshold |-> 5, reason |-> layer.reason]

\* the layer results that blocked, in layer order
BlockingLayers(results) ==
    SelectSeq([i \in 1..Len(LayerKeys) |-> results[LayerKeys[i]]], LAMBDA r : r.blocked)

\* C3: in full mode the verdict is blocked iff at least one of the four layers
\* blocked, and the violations list holds exactly one record (category tag,
\* confidence, threshold 0.5, reason) per blocking layer and none for a layer
\* that did not block.
C3_BlockedIffSomeLayerBlocked ==
    FullMode =>
        /\ moderation_result.blocked <=> (\E i \in 1..Len(LayerKeys) : Layers[LayerKeys[i]].blocked)
        /\ Len(moderation_result.violations) = Len(BlockingLayers(Layers))
        /\ \A i \in 1..Len(LayerKeys) :
            LET layer == Layers[LayerKeys[i]]
                records == SelectSeq(moderation_result.violations,
                                     LAMBDA v : v.type = layer.category)
            IN  IF layer.blocked
                THEN Len(records) = 1 /\ records[1] = RecordOf(layer)
                ELSE Len(records) = 0

\* C3 witness: a full-mode verdict with two blocking layers and two passing ones
C3_Witness ==
    /\ FullMode
    /\ Len(moderation_result.violations) = 2
    /\ Layers["content_safety"].blocked
    /\ Layers["security_privacy"].blocked

\* the verdict lists a security/privacy violation naming the card pattern
ListsCardViolation(result) ==
    \E i \in 1..Len(result.violations) :
        /\ result.violations[i].type = "SECURITY_PRIVACY"
        /\ Contains(result.violations[i].reason, "credit card pattern")

\* C4: every message containing a 16-digit card pattern is blocked by
\* check_content through the security/privacy layer, and the violations list
\* has a security/privacy record whose reason names the credit-card pattern.
C4_CardPatternBlocked ==
    (Moderated /\ CardPattern(user_message))
        => (moderation_result.blocked /\ ListsCardViolation(moderation_result))

\* C5: in fallback mode the brand/tone, topic-alignment and security/privacy
\* layers still decide the verdict: a message one of them blocks is blocked.
C5_FallbackKeepsOtherLayers ==
    (FallbackMode /\ \/ _check_brand_safety(user_message).blocked
                     \/ _check_alignment(user_message).blocked
                     \/ _check_security_privacy(user_message).blocked)
        => moderation_result.blocked

\* the message holds a word of the fallback keyword table
FallbackKeyword(message) ==
    \E i \in 1..Len(critical_patterns) : AnyIn(critical_patterns[i].patterns, Lower(message))

\* the message matches an allow-list and none of the block lists and patterns
\* that C6 names; the dangerous and profanity words of both moderator modes
\* are excluded
AllowListedAndClean(message) ==
    /\ AnyIn(alignment_safety_keywords, Lower(message))
    /\ ~DangerousKeyword(message)
    /\ ~FallbackKeyword(message)
    /\ ~AnyIn(inappropriate_words, Lower(message))
    /\ ~AnyIn(off_topic_keywords, Lower(message))
    /\ Len(SecurityViolations(message)) = 0

\* C6 as stated: a message that matches the allow-lists and no dangerous
\* keyword, profanity word, off-topic keyword, PII pattern or injection phrase
\* is not blocked, in both moderator modes and for every outcome of the
\* external model call.
C6_AllowListedNeverBlocked ==
    (Moderated /\ AllowListedAndClean(user_message)) => ~moderation_result.blocked

\* the model call of the content-safety layer signalled unsafe content: it
\* answered UNSAFE or raised with a safety word in the error text
ModelSaysUnsafe(o) ==
    \/ o.kind = "text" /\ Contains(Upper(o.text), "UNSAFE")
    \/ o.kind = "raise" /\ AnyIn(error_safety_words, Lower(o.text))

\* C6 as amended: such a message is blocked by none of the keyword and pattern
\* layers; check_content returns blocked = false in fallback mode, and in
\* full mode unless the external model call answers UNSAFE or raises with a
\* safety word in its error text.
C6_AllowListedBlockedOnlyByModel ==
    (Moderated /\ AllowListedAndClean(user_message)) =>
        /\ ~_check_brand_safety(user_message).blocked
        /\ ~_check_alignment(user_message).blocked
        /\ ~_check_security_privacy(user_message).blocked
        /\ FullMode => (moderation_result.blocked <=> ModelSaysUnsafe(ext))
        /\ FallbackMode => ~moderation_result.blocked

\* C6 witness: an allow-listed clean message passed in full mode although the
\* model call failed
C6_Witness ==
    /\ FullMode
    /\ AllowListedAndClean(user_message)
    /\ ext.kind = "raise"
    /\ ~moderation_result.blocked

\* trace entries that read the incident store or ask a response model
IsDataOrModelCall(e) == e = "get_recent_incidents" \/ InList(e, model_names)

\* C7: for a non-empty message the verdict is computed before any incident
\* store read and before any response-model call; when the verdict is blocked
\* the request ends without reading the store and without asking the model.
C7_ModerationFirst ==
    /\ \A i \in 1..Len(trace) :
        IsDataOrModelCall(trace[i]) => (Moderated /\ trace[1] = "check_content" /\ i > 1)
    /\ (pc = "done" /\ user_message # "") => (Moderated /\ trace[1] = "check_content")
    /\ (Moderated /\ moderation_result.blocked) =>
        /\ \A i \in 1..Len(trace) : ~IsDataOrModelCall(trace[i])
        /\ pc \in {"blocked", "done"}
        /\ pc = "done" => response.kind = "filtered"

\* C7 witness: a blocked request has ended
C7_Witness ==
    /\ pc = "done"
    /\ Moderated
    /\ moderation_result.blocked
    /\ trace = <<"check_content", "log_vertex_ai_moderation_action">>

\* the templates of the categories that blocked the message
TemplatesOfBlockers ==
    IF FullMode
    THEN (IF Layers["content_safety"].blocked THEN {"Content Safety Alert"} ELSE {})
         \cup (IF Layers["brand_safety"].blocked THEN {"Professional Communication"} ELSE {})
         \cup (IF Layers["security_privacy"].blocked THEN {"Privacy Protection"} ELSE {})
         \cup (IF Layers["alignment_check"].blocked THEN {"Stay On Topic"} ELSE {})
    ELSE {"Content Safety Alert", "Professional Communication", "Privacy Protection", "Stay On Topic"}

\* C8: whenever check_content returns a blocked verdict the body returned is
\* the template of a category that blocked the message, never the generic
\* assistant template, in full mode and in fallback mode.
C8_BlockTemplateIsSpecific ==
    (pc = "done" /\ Moderated /\ moderation_result.blocked)
        => (response.body # "SafetyMapper Assistant" /\ response.body \in TemplatesOfBlockers)

\* the records of the content-safety layer in the verdict
ContentRecords == SelectSeq(moderation_result.violations, LAMBDA v : v.type = "CONTENT_SAFETY")

\* C23: when the message contains a dangerous keyword the content-safety
\* layer blocks with confidence 0.9 without issuing its model call; the layer
\* calls the model only for messages that match no dangerous keyword.
C23_KeywordBlockSkipsModel ==
    FullMode =>
        /\ DangerousKeyword(user_message) =>
            /\ ext = NoCall
            /\ Len(ContentRecords) = 1
            /\ ContentRecords[1].score = 9
            /\ ContentRecords[1].reason = "Dangerous content detected"
            /\ moderation_result.blocked
        /\ ext # NoCall => ~DangerousKeyword(user_message)

\* C23 witness: a message with a dangerous keyword in mixed case was blocked
\* in full mode and the model was not asked
C23_Witness ==
    /\ FullMode
    /\ user_message = "a BoMb"
    /\ ext = NoCall
    /\ moderation_result.blocked

\* check_content has just returned its verdict to ai_chat
VerdictReturned == Moderated /\ pc \in {"blocked", "context"}

\* the error text of the model call holds a safety word
SafetyWordedError == AnyIn(error_safety_words, Lower(ext.text))

\* some layer other than content safety blocks the message
OtherLayerBlocks ==
    \/ _check_brand_safety(user_message).blocked
    \/ _check_alignment(user_message).blocked
    \/ _check_security_privacy(user_message).blocked

\* C24: when the model call of the content-safety layer raises, the layer
\* blocks with confidence 0.9 if the error text holds a safety word and
\* returns not-blocked with confidence 0.1 otherwise; the exception does not
\* leave the layer, and the other three layers are evaluated and combined.
C24_ModelErrorStaysInLayer ==
    (VerdictReturned /\ ext.kind = "raise") =>
        /\ FullMode
        /\ moderation_result.safety_layers_checked = LayerKeys
        /\ IF SafetyWordedError
           THEN /\ Layers["content_safety"].blocked
                /\ Layers["content_safety"].confidence = 9
                /\ Len(ContentRecords) = 1
                /\ ContentRecords[1].score = 9
           ELSE /\ ~Layers["content_safety"].blocked
                /\ Layers["content_safety"].confidence = 1
                /\ Len(ContentRecords) = 0
        /\ moderation_result.blocked <=> (SafetyWordedError \/ OtherLayerBlocks)
        /\ Len(moderation_result.violations) = Len(BlockingLayers(Layers))

\* C24 witness: the model call failed with an error that names no safety
\* word, and the brand layer blocked the message
C24_Witness ==
    /\ VerdictReturned
    /\ FullMode
    /\ ext.kind = "raise"
    /\ ~SafetyWordedError
    /\ moderation_result.blocked
    /\ moderation_result.blocked_categories = <<"brand_safety">>

\* every keyword of the moderator's lists
AllKeywords ==
    UNION {{list[i] : i \in 1..Len(list)} :
             list \in {dangerous_keywords, brand_safety_keywords, inappropriate_words,
                       alignment_safety_keywords, off_topic_keywords, injection_patterns}}
    \cup UNION {{critical_patterns[c].patterns[i] : i \in 1..Len(critical_patterns[c].patterns)} :
                  c \in 1..Len(critical_patterns)}

\* word is the only keyword the message matches, and no pattern matches
OnlyKeyword(message, word) ==
    /\ Contains(Lower(message), word)
    /\ \A k \in AllKeywords : Contains(Lower(message), k) => k = word
    /\ Len(SecurityViolations(message)) = 0

\* the model call of the content-safety layer answered SAFE
ModelSaysSafe == ext = [kind |-> "text", text |-> "SAFE"]

\* C25 as stated: a message whose only matched keyword is "damn" is blocked
\* in basic-fallback mode and is not blocked in full mode with the external
\* model answering SAFE.
C25_DamnBlockedOnlyInFallback ==
    (VerdictReturned /\ OnlyKeyword(user_message, "damn")) =>
        /\ FallbackMode => moderation_result.blocked
        /\ (FullMode /\ ModelSaysSafe) => ~moderation_result.blocked

\* C25 as amended: such a message is blocked in both modes, by the PROFANITY
\* row in fallback mode and by the brand layer in full mode; the modes
\* disagree on "hell", which is blocked in full mode only.
C25_HellBlockedOnlyInFullMode ==
    /\ (VerdictReturned /\ OnlyKeyword(user_message, "damn")) =>
        /\ moderation_result.blocked
        /\ FallbackMode => moderation_result.violations[1].type = "PROFANITY"
        /\ (FullMode /\ ModelSaysSafe) => moderation_result.blocked_categories = <<"brand_safety">>
    /\ (VerdictReturned /\ OnlyKeyword(user_message, "hell")) =>
        /\ FallbackMode => ~moderation_result.blocked
        /\ (FullMode /\ ModelSaysSafe) => moderation_result.blocked_categories = <<"brand_safety">>

\* C25 witness: "damn" alone was blocked in full mode with the model
\* answering SAFE
C25_Witness ==
    /\ VerdictReturned
    /\ FullMode
    /\ ModelSaysSafe
    /\ OnlyKeyword(user_message, "damn")
    /\ moderation_result.blocked

-----------------------------------------------------------------------------
(* Properties of the route segment classifier *)

\* the incident lies within the radius of the step's start or end point
NearStep(step, incident, radius) ==
    \/ WithinRadius(step.start_location.lat, step.start_location.lng,
                    incident.lat, incident.lng, radius)
    \/ WithinRadius(step.end_location.lat, step.end_location.lng,
                    incident.lat, incident.lng, radius)

\* incidents within 0.5 mi of either endpoint
TotalCount(step) == Len(SelectSeq(incidents, LAMBDA incident : NearStep(step, incident, NearRadius)))

\* high-severity incidents within 0.3 mi of either endpoint
SevereCount(step) ==
    Len(SelectSeq(incidents, LAMBDA incident :
        incident.severity = "high" /\ NearStep(step, incident, SevereRadius)))

\* C9: a segment is high_risk iff its severe count is > 0 or its total count
\* is >= 3, medium_risk iff it is not high_risk and the total count is >= 1,
\* and safe otherwise.
C9_SegmentLabelFollowsCounts ==
    pc = "routed" =>
        \A i \in 1..Len(route_segments) :
            LET level == route_segments[i].safety_level
                high == SevereCount(route_steps[i]) > 0 \/ TotalCount(route_steps[i]) >= 3
                medium == ~high /\ TotalCount(route_steps[i]) >= 1
            IN  /\ level = "high_risk" <=> high
                /\ level = "medium_risk" <=> medium
                /\ level = "safe" <=> (~high /\ ~medium)

\* C10: if some incident of severity high lies within 0.3 miles of the step's
\* start or end point, the segment of that step is high_risk, for every
\* latitude and longitude of the incident, 0 included.
C10_SevereNearbyIsHighRisk ==
    pc = "routed" =>
        \A i \in 1..Len(route_segments) : \A j \in 1..Len(incidents) :
            (incidents[j].severity = "high" /\ NearStep(route_steps[i], incidents[j], SevereRadius))
                => route_segments[i].safety_level = "high_risk"

\* the counter of severe incidents takes the incident for the step
CountedSevere(step, incident) ==
    /\ incident.severity = "high"
    /\ Truthy(incident.lat) /\ Truthy(incident.lng)
    /\ NearStep(step, incident, SevereRadius)

\* the counter of nearby incidents takes the incident for the step
CountedNearby(step, incident) ==
    /\ Truthy(incident.lat) /\ Truthy(incident.lng)
    /\ NearStep(step, incident, NearRadius)

\* C29: in every segment severe_incidents <= incident_count: each incident
\* counted as severe is also counted as nearby, so a segment with
\* incident_count = 0 has severe_incidents = 0.
C29_SevereAtMostNearby ==
    pc = "routed" =>
        \A i \in 1..Len(route_segments) :
            /\ route_segments[i].severe_incidents <= route_segments[i].incident_count
            /\ route_segments[i].incident_count = 0 => route_segments[i].severe_incidents = 0
            /\ route_segments[i].severe_incidents
                 = Cardinality({j \in 1..Len(incidents) :
                                   CountedSevere(route_steps[i], incidents[j])})
            /\ \A j \in 1..Len(incidents) :
                CountedSevere(route_steps[i], incidents[j])
                    => CountedNearby(route_steps[i], incidents[j])

\* C29 witness: a segment with a severe incident near both of its endpoints
\* and a further incident nearby that is not severe
C29_Witness ==
    /\ pc = "routed"
    /\ \E i \in 1..Len(route_segments) :
        /\ route_segments[i].severe_incidents = 1
        /\ route_segments[i].incident_count = 2
        /\ route_steps[i].start_location = route_steps[i].end_location

-----------------------------------------------------------------------------
(* Properties of the route safety score *)

\* the leading token of the distance text read as a number, in tenths
LeadingNumber ==
    IF Len(Split(distance)) = 0 THEN IndexError ELSE float(Split(distance)[1])

\* the second token of the distance text in lower case, "" if there is none
UnitToken == IF Len(Split(distance)) > 1 THEN Lower(Split(distance)[2]) ELSE ""

\* C11: for every travel mode, every count of police stations, hospitals and
\* gas stations and every distance text, the score returned by
\* calculate_safety_score_by_mode lies between 1.0 and 10.0
C11_ScoreWithinBounds ==
    pc = "scored" =>
        /\ IsFin(safety_score)
        /\ safety_score.fin >= 10
        /\ safety_score.fin <= 100

\* the scoring table in tenths: base score, bonus per place and its cap,
\* divisor and cap of the distance penalty
ModeTable ==
    [DRIVING   |-> [base |-> 60, police |-> 3, policeCap |-> 15, hospital |-> 2,
                    hospitalCap |-> 10, gas |-> 2, gasCap |-> 10,
                    divisor |-> 20, penaltyCap |-> 10],
     WALKING   |-> [base |-> 40, police |-> 7, policeCap |-> 30, hospital |-> 5,
                    hospitalCap |-> 20, gas |-> 0, gasCap |-> 0,
                    divisor |-> 2, penaltyCap |-> 20],
     TRANSIT   |-> [base |-> 50, police |-> 5, policeCap |-> 20, hospital |-> 3,
                    hospitalCap |-> 15, gas |-> 0, gasCap |-> 0,
                    divisor |-> 10, penaltyCap |-> 15],
     BICYCLING |-> [base |-> 45, police |-> 6, policeCap |-> 25, hospital |-> 4,
                    hospitalCap |-> 15, gas |-> 0, gasCap |-> 0,
                    divisor |-> 5, penaltyCap |-> 15]]

\* an unrecognised mode is scored as bicycling on the base score 5.0
ModeRow ==
    IF travel_mode \in DOMAIN ModeTable THEN ModeTable[travel_mode]
    ELSE [ModeTable["BICYCLING"] EXCEPT !.base = 50]

\* miles / divisor capped, in units of 1/ScoreUnit, for miles in units of
\* 1e-7 mile
CappedPenalty(row, miles) ==
    IF miles > row.penaltyCap * row.divisor * 1000000
    THEN row.penaltyCap * 20000000
    ELSE miles * (20 \div row.divisor)

\* base + capped bonuses - penalty, clamped to [1.0, 10.0] and rounded to one
\* decimal, in tenths
ExpectedScore(row, penalty) ==
    LET raw == (row.base + Min(police_stations * row.police, row.policeCap)
                + Min(hospitals * row.hospital, row.hospitalCap)
                + Min(gas_stations * row.gas, row.gasCap)) * 20000000 - penalty
        clamped == IF raw > 2000000000 THEN 2000000000
                   ELSE IF raw < 200000000 THEN 200000000 ELSE raw
    IN Round1(Fin(clamped))

\* C12: for each of the four modes and a distance text with a finite leading
\* number, the score is the mode's base score plus the capped bonuses minus
\* the capped distance penalty, clamped to [1.0, 10.0] and rounded to one
\* decimal, with the constants of the scoring table; the gas station bonus is
\* zero for every mode but driving
C12_ScoreFollowsTable ==
    (pc = "scored" /\ travel_mode \in DOMAIN ModeTable /\ IsFin(LeadingNumber)) =>
        LET miles == IF StartsWith(UnitToken, "km") THEN LeadingNumber.fin * 621371
                     ELSE LeadingNumber.fin * 1000000
        IN safety_score = ExpectedScore(ModeTable[travel_mode],
                                        CappedPenalty(ModeTable[travel_mode], miles))

\* a walking route past six police stations, hospitals and gas stations
C12_Witness ==
    /\ pc = "scored"
    /\ travel_mode = "WALKING"
    /\ police_stations = 6 /\ hospitals = 6 /\ gas_stations = 6
    /\ distance = "3.2 mi"
    /\ safety_score = Fin(74)

\* C13: a distance whose unit token starts with "km" is converted to miles
\* with the factor 0.621371 before the penalty is computed, a distance with no
\* unit token is taken as miles, and a distance whose leading token is not a
\* number (or that has no token) gives the penalty 0.5 and still a score
C13_DistanceParsing ==
    pc = "scored" =>
        /\ Raised(LeadingNumber) =>
                safety_score = ExpectedScore(ModeRow, 100000000)
        /\ (IsFin(LeadingNumber) /\ StartsWith(UnitToken, "km")) =>
                safety_score = ExpectedScore(ModeRow,
                                    CappedPenalty(ModeRow, LeadingNumber.fin * 621371))
        /\ (IsFin(LeadingNumber) /\ Len(Split(distance)) = 1) =>
                safety_score = ExpectedScore(ModeRow,
                                    CappedPenalty(ModeRow, LeadingNumber.fin * 1000000))

\* a driving route whose distance text is not a number
C13_Witness ==
    /\ pc = "scored"
    /\ travel_mode = "DRIVING"
    /\ police_stations = 0 /\ hospitals = 0 /\ gas_stations = 0
    /\ distance = "abc"
    /\ safety_score = Fin(55)

-----------------------------------------------------------------------------
(* Properties of the incident store and of the incident endpoints *)

\* the report has no value, or an empty one, for the field
LacksField(json, field) == field \notin DOMAIN json \/ json[field] = ""

RequiredFieldNames == {"type", "location", "description", "severity"}

\* the step is a POST /api/incidents whose report lacks a required field
RejectedReportStep ==
    /\ request'.op = "create_incident"
    /\ \E f \in RequiredFieldNames : LacksField(request'.json, f)

Listed == request.op = "get_incidents"

\* C15: every incident returned by GET /api/incidents was created within the
\* trailing `hours` window, whatever the collection holds, with or without a
\* database client, for every value of hours
C15_ListedWithinWindow ==
    Listed =>
        \A i \in 1..Len(api_response.body) :
            api_response.body[i].date >= Now - request.hours

\* C16: the list returned by GET /api/incidents is ordered newest first and
\* holds at most `limit` incidents, the sample-data fallback included
C16_NewestFirstAndCapped ==
    Listed =>
        /\ Len(api_response.body) <= request.limit
        /\ \A i, j \in 1..Len(api_response.body) :
                i < j => api_response.body[i].date >= api_response.body[j].date

\* the documents the listing streams: the first limit * 2 active ones
Scanned ==
    LET active == SelectSeq(store, LAMBDA data :
                        "status" \in DOMAIN data /\ data.status = "active")
    IN SubSeq(active, 1, IF Len(active) < request.limit * 2 THEN Len(active)
                         ELSE request.limit * 2)

\* the timestamp is no date, or a coordinate is no number
Malformed(data) ==
    \/ "created_at" \in DOMAIN data /\ "str" \in DOMAIN data.created_at
    \/ "latitude" \in DOMAIN data /\ "str" \in DOMAIN data.latitude
    \/ "longitude" \in DOMAIN data /\ "str" \in DOMAIN data.longitude

\* the time the listing reads from a well-formed document
ReadTime(data) ==
    IF "created_at" \notin DOMAIN data THEN Now
    ELSE IF "dt" \in DOMAIN data.created_at THEN data.created_at.dt
    ELSE data.created_at.iso

\* the streamed documents that are well-formed and in the window
GoodScanned ==
    {i \in 1..Len(Scanned) :
        ~Malformed(Scanned[i]) /\ ReadTime(Scanned[i]) >= Now - request.hours}

ListedIds == {api_response.body[i].id : i \in 1..Len(api_response.body)}

C18_SeverityInEnum ==
    /\ \A i \in 1..Len(store) :
            "severity" \in DOMAIN store[i] => store[i].severity \in Severities
    /\ (request.op = "create_incident" /\ api_response.status = 201) =>
            api_response.body.severity \in Severities
    /\ Listed =>
            \A i \in 1..Len(api_response.body) :
                api_response.body[i].severity \in Severities
    /\ \A i \in 1..Len(incidents) : incidents[i].severity \in Severities

\* C19: every document of the collection is still there, with every field as
\* it was, after each step of the API, and only POST /api/incidents changes
\* the collection at all
C19_StoredDocumentsKept ==
    [][/\ \A i \in 1..Len(store) : \E j \in 1..Len(store') : store'[j] = store[i]
       /\ request'.op # "create_incident" => store' = store]_vars

\* a report has been stored in a collection that already held a document
C19_Witness ==
    /\ request.op = "create_incident"
    /\ api_response.status = 201
    /\ Len(store) = 2
    /\ \E i \in 1..2 : store[i].incident_id = "doc1"
    /\ \E i \in 1..2 : store[i].incident_id = api_response.body.id

\* the document with its reporter data replaced
WithReporter(data, info) ==
    [k \in DOMAIN data \cup {"reporter_info"} |->
        IF k = "reporter_info" THEN info ELSE data[k]]

\* reporter data other than any a document holds
OtherReporters ==
    {[ip_address |-> "192.0.2.99", user_agent |-> "curl/8", report_time |-> [dt |-> 0]],
     [ip_address |-> "", user_agent |-> "", report_time |-> None]}

\* the fields of an incident in a response
ResponseFields ==
    {"id", "type", "location", "lat", "lng", "description", "severity",
     "timestamp", "date", "source", "has_photo", "photo_data", "photo_filename"}

\* C20: the reporter data (address, user agent, report time) reach no
\* response: the answer of GET /api/incidents is the one the same request
\* gets from a collection that differs in the reporter data only, and the
\* record returned by POST /api/incidents has no reporter field
C20_ReporterInfoNotExposed ==
    /\ Listed =>
        /\ \A i \in 1..Len(api_response.body) :
                DOMAIN api_response.body[i] = ResponseFields
        /\ \A info \in OtherReporters :
                api_response.body =
                    get_recent_incidents(db, api_trace = <<"stream">>,
                        [i \in 1..Len(store) |-> WithReporter(store[i], info)],
                        request.limit, request.hours)
    /\ (request.op = "create_incident" /\ api_response.status = 201) =>
            DOMAIN api_response.body = ResponseFields

\* a listed incident comes from a document that holds a reporter's address
C20_Witness ==
    /\ Listed
    /\ \E i \in 1..Len(store) :
        /\ "reporter_info" \in DOMAIN store[i]
        /\ store[i].reporter_info.ip_address = "198.51.100.1"
        /\ store[i].incident_id \in ListedIds

\* the request being answered is a report with a photo above the size limit
OversizePhotoReport ==
    /\ request.op = "create_incident"
    /\ Get(request.json, "has_photo", FALSE)
    /\ "photo_data" \in DOMAIN request.json
    /\ request.json.photo_data.b64len > 1024 * 1024

\* the documents of the collection with the id of the returned record
DocumentsReturned == SelectSeq(store, LAMBDA data : data.incident_id = api_response.body.id)

\* C27: every document persisted with has_photo = true carries a photo of at
\* most 1,048,576 characters; a report whose photo exceeds the limit is still
\* persisted and returned as stored, with has_photo = false, null photo data
\* and filename, and its other fields intact.
C27_OversizePhotoDropped ==
    /\ \A i \in 1..Len(store) :
        Get(store[i], "has_photo", FALSE) =>
            /\ store[i].photo_data # None
            /\ store[i].photo_data.b64len <= 1024 * 1024
    /\ (OversizePhotoReport /\ FirstMissing(request.json) = 0 /\ api_response.status # 201) =>
        api_response.body.error \in {"Google Maps not available for geocoding", "str(e)",
                                     "Location not found", "Failed to store incident"}
    /\ (OversizePhotoReport /\ api_response.status = 201) =>
        /\ api_response.body.has_photo = FALSE
        /\ api_response.body.photo_data = None
        /\ api_response.body.photo_filename = None
        /\ api_response.body.type = request.json.type
        /\ api_response.body.description = request.json.description
        /\ api_response.body.severity = request.json.severity
        /\ api_response.body.source = "user_report"
        /\ Len(DocumentsReturned) = 1
        /\ DocumentsReturned[1] =
              document_data([incident_data_of(request.json) EXCEPT
                                !.has_photo = FALSE, !.photo_data = None,
                                !.photo_filename = None],
                            api_response.body.id)

\* C27 witness: a report with a photo one character above the limit was
\* stored and returned without the photo
C27_Witness ==
    /\ OversizePhotoReport
    /\ request.json.photo_data.b64len = 1024 * 1024 + 1
    /\ api_response.status = 201
    /\ api_response.body.has_photo = FALSE
    /\ Len(DocumentsReturned) = 1

-----------------------------------------------------------------------------
(* Properties of initialize_sample_data *)

\* C28: initialize_sample_data adds the sample incidents only if no incident
\* exists: a run on a collection that holds one or more incidents leaves it
\* unchanged, so a second run after a first run on an empty collection adds
\* nothing.
C28_SamplesOnlyIntoEmptyStore ==
    [][(request'.op = "initialize_sample_data" /\ Len(store) >= 1) => store' = store]_vars

-----------------------------------------------------------------------------
(* Properties of create_safety_context *)

RECURSIVE SumOver(_, _)
\* the sum of f over the keys S
SumOver(f, S) ==
    IF S = {} THEN 0
    ELSE LET k == CHOOSE x \in S : TRUE
         IN f[k] + SumOver(f, S \ {k})

\* the incidents that name a location
Located == SelectSeq(incidents, LAMBDA incident : Get(incident, "location", "") # "")

\* every severity of the list is low, medium or high
SeveritiesInEnum ==
    \A i \in 1..Len(incidents) : Get(incidents[i], "severity", "low") \in Severities

\* C26: for every incident list with severities in {low, medium, high} the
\* context has total_incidents equal to the list length, counts by type and
\* counts by severity that each sum to it, at most five recent_locations, and
\* per-location totals that sum to the number of incidents with a location.
C26_ContextCountsAddUp ==
    (pc = "context built" /\ SeveritiesInEnum) =>
        /\ ~Raised(context)
        /\ context.has_local_data <=> Len(incidents) > 0
        /\ context.total_incidents = Len(incidents)
        /\ SumOver(context.incident_types, DOMAIN context.incident_types)
             = context.total_incidents
        /\ SumOver(context.severity_breakdown, DOMAIN context.severity_breakdown)
             = context.total_incidents
        /\ DOMAIN context.severity_breakdown = Severities
        /\ Len(context.recent_locations) <= 5
        /\ SumOver([loc \in DOMAIN context.location_breakdown |->
                        context.location_breakdown[loc].total],
                   DOMAIN context.location_breakdown)
             = Len(Located)

\* C26 witness: six incidents that all name a location, of two types and two
\* severities, gave a context with five recent locations
C26_Witness ==
    /\ pc = "context built"
    /\ SeveritiesInEnum
    /\ Len(incidents) = 6
    /\ Len(Located) = 6
    /\ Len(context.recent_locations) = 5
    /\ Cardinality(DOMAIN context.incident_types) = 2
    /\ context.severity_breakdown["high"] > 0
    /\ context.severity_breakdown["low"] > 0

-----------------------------------------------------------------------------
(* Properties of the response-model cascade and of the chat handler's replies *)

\* the response models asked for the current request, in order
ModelsTried == SelectSeq(trace, LAMBDA e : \E i \in 1..Len(model_names) : e = model_names[i])

\* the models are asked in list order, each at most once, and a reply of a
\* model is the reply of the last one asked
CascadeInOrder ==
    /\ ModelsTried = Prefix(model_names, Len(ModelsTried))
    /\ response.kind = "gemini" =>
          /\ Len(ModelsTried) >= 1
          /\ response.body = ModelsTried[Len(ModelsTried)]
    /\ (pc = "gemini" /\ keyConfigured /\ genaiAvailable) => Len(ModelsTried) = model_idx - 1

\* C21 as stated: the models are tried in list order, each at most once, the
\* first one that returns text ends the cascade, and the templated fallback
\* reply is produced only when every model has been tried and has failed.
C21_FallbackOnlyAfterAllModels ==
    /\ CascadeInOrder
    /\ response.kind = "fallback" => ModelsTried = model_names

\* C21, amended: the models are tried in list order, each at most once, the
\* first one that returns text ends the cascade, and the templated fallback
\* reply is produced when every model has been tried and has failed, or
\* with no model tried at all when no API key is configured or the client
\* library is not loaded.
C21_FallbackAfterAllModelsOrNone ==
    /\ CascadeInOrder
    /\ (keyConfigured /\ genaiAvailable /\ (pc = "fallback" \/ response.kind = "fallback")) =>
          ModelsTried = model_names
    /\ ~(keyConfigured /\ genaiAvailable) =>
          /\ ModelsTried = <<>>
          /\ (pc = "done" /\ ~Raised(context) /\ context # NoContext) => response.kind = "fallback"

\* C21 witness: the first model raised or was empty, the second too, and the
\* third one's text is the reply
C21_Witness ==
    /\ pc = "done"
    /\ response.kind = "gemini"
    /\ response.body = model_names[3]
    /\ ModelsTried = model_names

\* the replies of ai_chat to a request with a message
ChatReplies == {"filtered", "gemini", "fallback", "technical"}

\* C22: every chat request with a non-empty message ends, and ends with a
\* {response: ...} body (block template, model reply, templated fallback or
\* the technical-difficulties reply) whatever fails: the moderator's model
\* call, the incident store, the audit log or every response model; no
\* exception leaves the handler.
C22_ChatAlwaysAnswers ==
    /\ []((pc = "done" /\ user_message # "") =>
            /\ response.status = 200
            /\ response.kind \in ChatReplies
            /\ response.body # "")
    /\ [](response.kind \in ChatReplies \cup {"none", "error"})
    /\ (pc = "moderate") ~> (pc = "done" /\ response.kind \in ChatReplies)

\* C22 witness: the moderator's model call raised, the collection held a
\* document that create_safety_context cannot count, and the reply is the
\* technical-difficulties text
C22_Witness ==
    /\ pc = "done"
    /\ user_message # ""
    /\ ext.kind = "raise"
    /\ db
    /\ Raised(context)
    /\ response.status = 200
    /\ response.kind = "technical"

\* C30: the context built in ai_chat has has_local_data true and
\* total_incidents >= 1, whatever the store holds or answers, and the
\* no-local-data prompt (create_general_safety_prompt) is never selected.
C30_ChatContextNeverEmpty ==
    /\ (context # NoContext /\ ~Raised(context)) =>
          /\ context.has_local_data
          /\ context.total_incidents >= 1
          /\ context.total_incidents = Len(incidents)
    /\ pc \in {"gemini", "fallback"} => (context # NoContext /\ ~Raised(context))
    /\ \A i \in 1..Len(trace) : trace[i] # "create_general_safety_prompt"

\* C30 witness: the collection holds only a report older than the window,
\* the three samples stand in and a model was asked with the local-data prompt
C30_Witness ==
    /\ pc = "done"
    /\ db
    /\ Len(store) >= 1
    /\ incidents = _get_sample_incidents
    /\ context.has_local_data
    /\ context.total_incidents = 3
    /\ response.kind = "gemini"
    /\ \E i \in 1..Len(trace) : trace[i] = "create_local_data_prompt"

====
